---- MODULE Spec2Model ----
(***************************************************************************)
(* The spec-job / code-job lifecycle coordinator of the game generator:    *)
(* PostSpecJob (generate, similarity search, duplicate decision, insert,   *)
(* state log, index upsert, auto-enqueue), the code-job handlers and the   *)
(* detached worker processCodeGeneration, the state tracker                *)
(* updateGameSpecState, DeleteSpec, and the control flow of the git        *)
(* driver.  Every database statement, HTTP call and git invocation is one  *)
(* atomic step; handlers and workers interleave between them.              *)
(***************************************************************************)
EXTENDS Integers, Sequences, FiniteSets, TLC

VARIABLES
    game_specs,        \* table game_specs: id -> row
    gen_spec_jobs,     \* table gen_spec_jobs: id -> row
    code_jobs,         \* table code_jobs: id -> row
    game_spec_states,  \* table game_spec_states, in insertion (created_at) order
    vectorIndex,       \* the similarity gateway's index: spec id -> text
    repo,              \* the shared git working directory
    req,               \* PostSpecJob invocations: locals and position
    wk,                \* processCodeGeneration goroutines: locals and position
    del,               \* the DeleteSpec invocation: locals and position
    api,               \* the last code-job API response
    nextSpecID,        \* uuid.New() for game_specs
    nextCodeJobID,     \* uuid.New() for code_jobs
    clock,             \* time.Now()
    env,               \* the process environment read by NewGitRepo
    tr,                \* updateGameSpecState calls of other callers: locals and position
    drv                \* the git driver called on its own: the local clone's
                       \* setup, the last call and what it returned

vars == <<game_specs, gen_spec_jobs, code_jobs, game_spec_states, vectorIndex,
          repo, req, wk, del, api, nextSpecID, nextCodeJobID, clock, env, tr, drv>>

----------------------------------------------------------------------------
(* Bounds of the model *)

MaxSpecJobs == 2
MaxCodeJobs == 2
MaxCallers == 2
MaxDriverCalls == 2

(* Program constants *)

TopK == 5
Threshold == 86

ReqIDs == 1..MaxSpecJobs
CodeJobIDs == 1..MaxCodeJobs
Callers == 1..MaxCallers

StateCreating == "creating"
StateGitIniting == "git_initing"
StateGitInited == "git_inited"
StateCodeGenerating == "code_generating"
StateCodeGenerated == "code_generated"

NULL == "NULL"

----------------------------------------------------------------------------
(* Inputs: briefs and the generator's responses *)

Briefs == {"", "arcade 60s mobile puzzle game"}

ControlVals == {1, 2, 3}
GenreVals == {1, 2}

Json == [controls : ControlVals, genre : GenreVals]

\* the generator's answers: two specs that differ only outside the fingerprint,
\* one at the similarity threshold of them, one below it
Gens == {g \in [title : {"Dodge Rush"}, spec_markdown : {"md"}, spec_json : Json] :
            g.spec_json.genre = 1 \/ g.spec_json.controls = 1}

NoGen == [title |-> "", spec_markdown |-> "", spec_json |-> [controls |-> 0, genre |-> 0]]

----------------------------------------------------------------------------
(* hashSpec: json.Marshal writes a map's keys in sorted order; the digest   *)
(* is collision-free on the serialisations                                  *)

KeyOrder == <<"controls", "genre">>

Marshal(specJSON) ==
    [i \in 1..Len(KeyOrder) |-> <<KeyOrder[i], specJSON[KeyOrder[i]]>>]

RECURSIVE Sum256(_)
Sum256(b) ==
    IF b = <<>> THEN 7 ELSE Sum256(SubSeq(b, 1, Len(b) - 1)) * 31 + b[Len(b)][2]

hashSpec(specJSON) == Sum256(Marshal(specJSON))

\* the text sent to the similarity gateway
normText(g) == <<g.title, g.spec_json.controls>>

----------------------------------------------------------------------------
(* The similarity gateway *)

Abs(x) == IF x < 0 THEN -x ELSE x

\* cosine score of two texts, in hundredths
Score(t1, t2) ==
    IF t1 = t2 THEN 100
    ELSE IF t1[1] = t2[1] /\ Abs(t1[2] - t2[2]) = 1 THEN 86
    ELSE 50

Hit(index, id, text) == [spec_id |-> id, score |-> Score(index[id], text)]

Better(a, b) == a.score > b.score \/ (a.score = b.score /\ a.spec_id < b.spec_id)

RECURSIVE SortDesc(_)
SortDesc(S) ==
    IF S = {} THEN <<>>
    ELSE LET top == CHOOSE a \in S : \A b \in S \ {a} : Better(a, b)
         IN <<top>> \o SortDesc(S \ {top})

\* POST /vector/search: the nearest neighbours, best first, at most top_k
VectorSearch(index, text, topK) ==
    LET all == SortDesc({Hit(index, id, text) : id \in DOMAIN index})
    IN SubSeq(all, 1, IF Len(all) < topK THEN Len(all) ELSE topK)

\* POST /vector/upsert
VectorUpsert(index, id, text) ==
    [i \in DOMAIN index \cup {id} |-> IF i = id THEN text ELSE index[i]]

\* DELETE /vector/spec/:id
VectorDelete(index, id) == [i \in DOMAIN index \ {id} |-> index[i]]

----------------------------------------------------------------------------
(* Tables *)

Put(table, id, row) ==
    [i \in DOMAIN table \cup {id} |-> IF i = id THEN row ELSE table[i]]

Drop(table, ids) == [i \in DOMAIN table \ ids |-> table[i]]

\* an insert that stores a digest of the row id in place of the digest it is given
InsertGameSpecKeyed(specs, id, g, brief, hash) ==
    Put(specs, id, [title |-> g.title, brief |-> brief,
                    spec_json |-> g.spec_json, spec_hash |-> Sum256(<<<<"id", id>>>>),
                    state |-> StateCreating, devin_session_id |-> NULL])

\* INSERT INTO game_specs ... state = creating
InsertGameSpec(specs, id, g, brief, hash) ==
    Put(specs, id, [title |-> g.title, brief |-> brief,
                    spec_json |-> g.spec_json, spec_hash |-> hash,
                    state |-> StateCreating, devin_session_id |-> NULL])

\* spec_hash without its UNIQUE constraint
HashFree(specs, hash) == FALSE

\* spec_hash TEXT NOT NULL UNIQUE
HashTaken(specs, hash) == \E i \in DOMAIN specs : specs[i].spec_hash = hash

\* a decision that takes a score at the threshold for a new spec
IsDuplicateAbove(s, threshold) == Len(s) > 0 /\ s[1].score > threshold

\* the duplicate decision of PostSpecJob
IsDuplicate(s, threshold) == Len(s) > 0 /\ s[1].score >= threshold

\* an UPDATE without its WHERE clause
SetStateEverywhere(specs, id, newState) ==
    [i \in DOMAIN specs |-> [specs[i] EXCEPT !.state = newState]]

\* UPDATE game_specs SET state = $1 WHERE id = $2
SetState(specs, id, newState) ==
    IF id \in DOMAIN specs
    THEN [specs EXCEPT ![id].state = newState]
    ELSE specs

\* INSERT INTO game_spec_states (game_spec_id, state_before, state_after, detail)
StateRow(id, before, after) ==
    [game_spec_id |-> id, state_before |-> before, state_after |-> after]

\* an update that appends to the logs column
appendJobStatus(jobs, jobID, status, progress, logs) ==
    IF jobID \in DOMAIN jobs
    THEN [jobs EXCEPT ![jobID].status = status,
                      ![jobID].progress = progress,
                      ![jobID].logs = @ \o logs]
    ELSE jobs

\* UPDATE code_jobs SET status, progress, logs WHERE id = $5
updateJobStatus(jobs, jobID, status, progress, logs) ==
    IF jobID \in DOMAIN jobs
    THEN [jobs EXCEPT ![jobID].status = status,
                      ![jobID].progress = progress,
                      ![jobID].logs = logs]
    ELSE jobs

\* INSERT INTO code_jobs (...) VALUES (..., 'queued', now, now)
CodeJobRow(specID, now) ==
    [game_spec_id |-> specID, status |-> "queued", progress |-> 0,
     logs |-> <<>>, created_at |-> now]

----------------------------------------------------------------------------
(* updateGameSpecState: three statements, read / write / log.  A caller    *)
(* keeps the state it read in its local cur.                                *)

\* SELECT state FROM game_specs WHERE id = $1
ReadState(specs, id) == IF id \in DOMAIN specs THEN specs[id].state ELSE NULL

\* a log statement that takes state_before for the initial state instead of
\* the state the call read
LogTransitionUnread(log, specs, id, before, after) ==
    IF id \in DOMAIN specs THEN Append(log, StateRow(id, StateCreating, after)) ELSE log

\* the row the third statement inserts; the foreign key rejects it when the
\* spec is gone
LogTransition(log, specs, id, before, after) ==
    IF id \in DOMAIN specs THEN Append(log, StateRow(id, before, after)) ELSE log

----------------------------------------------------------------------------
(* updateGameSpecState called by a caller of its own, with any arguments *)

\* the newState a caller may pass: the five labels and a string that is none
\* of them
StateLabels == {StateCreating, StateGitIniting, StateGitInited,
                StateCodeGenerating, StateCodeGenerated}

AnyState == StateLabels \cup {"archived"}

ErrGetState == "failed to get current state"
ErrLogState == "failed to log state transition"

\* the calls of updateGameSpecState for a spec that have read its state and
\* not yet logged: by a caller of its own, by PostSpecJob or its goroutine, by
\* PostCodeJob or a worker
CallsUnderWay(id) ==
    {<<"tr", t>> : t \in {u \in DOMAIN tr : /\ tr[u].pc \in {"write", "log"}
                                            /\ tr[u].specID = id}}
    \cup {<<"req", r>> : r \in {q \in DOMAIN req :
                /\ req[q].pc \in {"st_write", "st_log", "go_write", "go_log"}
                /\ req[q].specID = id}}
    \cup {<<"wk", j>> : j \in {k \in DOMAIN wk :
                /\ wk[k].pc \in {"pcj_write", "pcj_log", "gi_write", "gi_log",
                                 "cg_write", "cg_log"}
                /\ wk[k].specID = id}}

RecordCount(id) ==
    Len(SelectSeq(game_spec_states, LAMBDA row : row.game_spec_id = id))

\* history of a call: seen is the number of the spec's records at its read,
\* overlap tells at its return whether another call for the spec was under
\* way at any time between its read and its log
TrInit == [pc |-> "idle", specID |-> 0, newState |-> NULL, cur |-> NULL,
           err |-> "", seen |-> 0, overlap |-> FALSE]

\* another call was under way since the read of t's call: one is under way
\* now, or one has logged in the meantime
Overlapped(t) ==
    /\ tr[t].pc \in {"write", "log"}
    /\ \/ CallsUnderWay(tr[t].specID) # {<<"tr", t>>}
       \/ RecordCount(tr[t].specID) # tr[t].seen

\* a tracker that refuses a newState that is none of the five labels
updateGameSpecState_ReadChecked(t, specID, newState) ==
    /\ tr[t].pc = "idle"
    /\ tr' = IF specID \in DOMAIN game_specs /\ newState \in StateLabels
             THEN [tr EXCEPT ![t] = [pc |-> "write", specID |-> specID,
                                     newState |-> newState,
                                     cur |-> ReadState(game_specs, specID),
                                     err |-> "",
                                     seen |-> RecordCount(specID),
                                     overlap |-> FALSE]]
             ELSE [tr EXCEPT ![t] = [pc |-> "done", specID |-> specID,
                                     newState |-> newState, cur |-> NULL,
                                     err |-> ErrGetState, seen |-> 0,
                                     overlap |-> FALSE]]
    /\ UNCHANGED <<game_specs, gen_spec_jobs, code_jobs, game_spec_states,
                   vectorIndex, repo, req, wk, del, api, nextSpecID,
                   nextCodeJobID, clock, env, drv>>

\* updateGameSpecState(db, specID, newState, detail), first statement: the
\* call and its SELECT, which fails when no row has the id
updateGameSpecState_Read(t, specID, newState) ==
    /\ tr[t].pc = "idle"
    /\ tr' = IF specID \in DOMAIN game_specs
             THEN [tr EXCEPT ![t] = [pc |-> "write", specID |-> specID,
                                     newState |-> newState,
                                     cur |-> ReadState(game_specs, specID),
                                     err |-> "",
                                     seen |-> RecordCount(specID),
                                     overlap |-> FALSE]]
             ELSE [tr EXCEPT ![t] = [pc |-> "done", specID |-> specID,
                                     newState |-> newState, cur |-> NULL,
                                     err |-> ErrGetState, seen |-> 0,
                                     overlap |-> FALSE]]
    /\ UNCHANGED <<game_specs, gen_spec_jobs, code_jobs, game_spec_states,
                   vectorIndex, repo, req, wk, del, api, nextSpecID,
                   nextCodeJobID, clock, env, drv>>

\* updateGameSpecState, second statement
updateGameSpecState_Write(t) ==
    /\ tr[t].pc = "write"
    /\ game_specs' = SetState(game_specs, tr[t].specID, tr[t].newState)
    /\ tr' = [tr EXCEPT ![t].pc = "log"]
    /\ UNCHANGED <<gen_spec_jobs, code_jobs, game_spec_states, vectorIndex, repo,
                   req, wk, del, api, nextSpecID, nextCodeJobID, clock, env, drv>>

\* updateGameSpecState, third statement and the return
updateGameSpecState_Log(t) ==
    /\ tr[t].pc = "log"
    /\ game_spec_states' = LogTransition(game_spec_states, game_specs,
                               tr[t].specID, tr[t].cur, tr[t].newState)
    /\ tr' = [tr EXCEPT ![t].pc = "done",
                        ![t].err = IF tr[t].specID \in DOMAIN game_specs
                                   THEN "" ELSE ErrLogState,
                        ![t].overlap = Overlapped(t)]
    /\ UNCHANGED <<game_specs, gen_spec_jobs, code_jobs, vectorIndex, repo, req,
                   wk, del, api, nextSpecID, nextCodeJobID, clock, env, drv>>

----------------------------------------------------------------------------

(* PostSpecJob *)

ReqInit == [pc |-> "idle", brief |-> "", g |-> NoGen, s |-> <<>>, specID |-> 0,
            cur |-> NULL, acked |-> FALSE, resp |-> "none", codeJobID |-> 0]

WkInit == [pc |-> "none", specID |-> 0, cur |-> NULL, err |-> "", session |-> NULL,
           passed |-> <<>>, fail |-> <<>>, failAt |-> 0]

Reply(r, code) == [req EXCEPT ![r].pc = "done", ![r].resp = code]

\* the new state and the continuation of each updateGameSpecState call site
ReqNewState(pc) == IF pc \in {"st_read", "st_write", "st_log"}
                   THEN StateCreating ELSE StateGitIniting
ReqAfterState(pc) == IF pc \in {"st_read", "st_write", "st_log"}
                     THEN "upsert" ELSE "go_insert"
ReqWritePC(pc) == IF pc = "st_read" THEN "st_write" ELSE "go_write"
ReqLogPC(pc) == IF pc = "st_write" THEN "st_log" ELSE "go_log"

\* a handler without the brief validation
PostSpecJob_BeginUnvalidated(r, brief) ==
    /\ req[r].pc = "idle"
    /\ \A q \in ReqIDs : q < r => req[q].pc # "idle"
    /\ gen_spec_jobs' = Put(gen_spec_jobs, r,
            [status |-> "QUEUED", brief |-> brief, result_spec_id |-> 0,
             duplicate_of |-> <<>>])
    /\ req' = [req EXCEPT ![r].pc = "set_running", ![r].brief = brief]
    /\ UNCHANGED <<game_specs, code_jobs, game_spec_states, vectorIndex, repo, wk,
                   del, api, nextSpecID, nextCodeJobID, clock, env, tr, drv>>

\* body parse, validation and INSERT INTO gen_spec_jobs ... 'QUEUED'
PostSpecJob_Begin(r, brief) ==
    /\ req[r].pc = "idle"
    /\ \A q \in ReqIDs : q < r => req[q].pc # "idle"
    /\ IF brief = ""
       THEN /\ req' = Reply(r, "BadRequest")
            /\ UNCHANGED gen_spec_jobs
       ELSE /\ gen_spec_jobs' = Put(gen_spec_jobs, r,
                    [status |-> "QUEUED", brief |-> brief, result_spec_id |-> 0,
                     duplicate_of |-> <<>>])
            /\ req' = [req EXCEPT ![r].pc = "set_running", ![r].brief = brief]
    /\ UNCHANGED <<game_specs, code_jobs, game_spec_states, vectorIndex, repo, wk,
                   del, api, nextSpecID, nextCodeJobID, clock, env, tr, drv>>

\* a handler that goes on to generate without the RUNNING update
PostSpecJob_StayQueued(r) ==
    /\ req[r].pc = "set_running"
    /\ req' = [req EXCEPT ![r].pc = "generate"]
    /\ UNCHANGED <<game_specs, gen_spec_jobs, code_jobs, game_spec_states,
                   vectorIndex, repo, wk, del, api, nextSpecID, nextCodeJobID,
                   clock, env, tr, drv>>

\* UPDATE gen_spec_jobs SET status='RUNNING'
PostSpecJob_SetRunning(r) ==
    /\ req[r].pc = "set_running"
    /\ gen_spec_jobs' = [gen_spec_jobs EXCEPT ![r].status = "RUNNING"]
    /\ req' = [req EXCEPT ![r].pc = "generate"]
    /\ UNCHANGED <<game_specs, code_jobs, game_spec_states, vectorIndex, repo, wk,
                   del, api, nextSpecID, nextCodeJobID, clock, env, tr, drv>>

\* POST /llm/generate-spec, the generator answering from gens
PostSpecJob_Generate(r, gens) ==
    /\ req[r].pc = "generate"
    /\ \E ok \in BOOLEAN, g \in gens :
          req' = IF ok THEN [req EXCEPT ![r].pc = "search", ![r].g = g]
                 ELSE Reply(r, "BadGateway")
    /\ UNCHANGED <<game_specs, gen_spec_jobs, code_jobs, game_spec_states,
                   vectorIndex, repo, wk, del, api, nextSpecID, nextCodeJobID,
                   clock, env, tr, drv>>

\* a handler that marks the job FAILED when the search fails
PostSpecJob_SearchMarkFailed(r) ==
    /\ req[r].pc = "search"
    /\ \E ok \in BOOLEAN :
          LET s == VectorSearch(vectorIndex, normText(req[r].g), TopK)
          IN IF ok
             THEN /\ req' = [req EXCEPT ![r].s = s,
                                        ![r].pc = IF IsDuplicate(s, Threshold)
                                                  THEN "mark_dup" ELSE "insert"]
                  /\ UNCHANGED gen_spec_jobs
             ELSE /\ req' = Reply(r, "BadGateway")
                  /\ gen_spec_jobs' = [gen_spec_jobs EXCEPT ![r].status = "FAILED"]
    /\ UNCHANGED <<game_specs, code_jobs, game_spec_states, vectorIndex, repo, wk,
                   del, api, nextSpecID, nextCodeJobID, clock, env, tr, drv>>

\* POST /vector/search and the duplicate decision
PostSpecJob_Search(r) ==
    /\ req[r].pc = "search"
    /\ \E ok \in BOOLEAN :
          LET s == VectorSearch(vectorIndex, normText(req[r].g), TopK)
          IN req' = IF ok
                    THEN [req EXCEPT ![r].s = s,
                                     ![r].pc = IF IsDuplicate(s, Threshold)
                                               THEN "mark_dup" ELSE "insert"]
                    ELSE Reply(r, "BadGateway")
    /\ UNCHANGED <<game_specs, gen_spec_jobs, code_jobs, game_spec_states,
                   vectorIndex, repo, wk, del, api, nextSpecID, nextCodeJobID,
                   clock, env, tr, drv>>

\* UPDATE gen_spec_jobs SET status='DUPLICATE', duplicate_of, score_similarity
PostSpecJob_MarkDuplicate(r) ==
    /\ req[r].pc = "mark_dup"
    /\ gen_spec_jobs' = [gen_spec_jobs EXCEPT
            ![r].status = "DUPLICATE",
            ![r].duplicate_of = [i \in 1..Len(req[r].s) |-> req[r].s[i].spec_id]]
    /\ req' = Reply(r, "DUPLICATE")
    /\ UNCHANGED <<game_specs, code_jobs, game_spec_states, vectorIndex, repo, wk,
                   del, api, nextSpecID, nextCodeJobID, clock, env, tr, drv>>

\* a handler that carries on to the state log and the upsert when the insert
\* is rejected
PostSpecJob_InsertLenient(r) ==
    /\ req[r].pc = "insert"
    /\ LET hash == hashSpec(req[r].g.spec_json)
       IN IF HashTaken(game_specs, hash)
          THEN /\ req' = [req EXCEPT ![r].pc = "st_read"]
               /\ UNCHANGED <<game_specs, nextSpecID>>
          ELSE /\ game_specs' = InsertGameSpec(game_specs, nextSpecID, req[r].g,
                                               req[r].brief, hash)
               /\ req' = [req EXCEPT ![r].pc = "st_read", ![r].specID = nextSpecID]
               /\ nextSpecID' = nextSpecID + 1
    /\ UNCHANGED <<gen_spec_jobs, code_jobs, game_spec_states, vectorIndex, repo,
                   wk, del, api, nextCodeJobID, clock, env, tr, drv>>

\* an insert that also turns away a spec whose text is near a stored row's
PostSpecJob_InsertUnlessSimilar(r) ==
    /\ req[r].pc = "insert"
    /\ LET hash == hashSpec(req[r].g.spec_json)
       IN IF \/ HashTaken(game_specs, hash)
             \/ \E i \in DOMAIN game_specs :
                    Score(normText(game_specs[i]),
                          normText(req[r].g)) >= Threshold
          THEN /\ req' = Reply(r, "InternalServerError")
               /\ UNCHANGED <<game_specs, nextSpecID>>
          ELSE /\ game_specs' = InsertGameSpec(game_specs, nextSpecID, req[r].g,
                                               req[r].brief, hash)
               /\ req' = [req EXCEPT ![r].pc = "st_read", ![r].specID = nextSpecID]
               /\ nextSpecID' = nextSpecID + 1
    /\ UNCHANGED <<gen_spec_jobs, code_jobs, game_spec_states, vectorIndex, repo,
                   wk, del, api, nextCodeJobID, clock, env, tr, drv>>

\* hashSpec and INSERT INTO game_specs
PostSpecJob_Insert(r) ==
    /\ req[r].pc = "insert"
    /\ LET hash == hashSpec(req[r].g.spec_json)
       IN IF HashTaken(game_specs, hash)
          THEN /\ req' = Reply(r, "InternalServerError")
               /\ UNCHANGED <<game_specs, nextSpecID>>
          ELSE /\ game_specs' = InsertGameSpec(game_specs, nextSpecID, req[r].g,
                                               req[r].brief, hash)
               /\ req' = [req EXCEPT ![r].pc = "st_read", ![r].specID = nextSpecID]
               /\ nextSpecID' = nextSpecID + 1
    /\ UNCHANGED <<gen_spec_jobs, code_jobs, game_spec_states, vectorIndex, repo,
                   wk, del, api, nextCodeJobID, clock, env, tr, drv>>

\* updateGameSpecState, first statement
PostSpecJob_StateRead(r) ==
    /\ req[r].pc \in {"st_read", "go_read"}
    /\ req' = IF req[r].specID \in DOMAIN game_specs
              THEN [req EXCEPT ![r].cur = ReadState(game_specs, req[r].specID),
                               ![r].pc = ReqWritePC(req[r].pc)]
              ELSE [req EXCEPT ![r].pc = ReqAfterState(req[r].pc)]
    /\ UNCHANGED <<game_specs, gen_spec_jobs, code_jobs, game_spec_states,
                   vectorIndex, repo, wk, del, api, nextSpecID, nextCodeJobID,
                   clock, env, tr, drv>>

\* updateGameSpecState, second statement
PostSpecJob_StateWrite(r) ==
    /\ req[r].pc \in {"st_write", "go_write"}
    /\ game_specs' = SetState(game_specs, req[r].specID, ReqNewState(req[r].pc))
    /\ req' = [req EXCEPT ![r].pc = ReqLogPC(req[r].pc)]
    /\ UNCHANGED <<gen_spec_jobs, code_jobs, game_spec_states, vectorIndex, repo,
                   wk, del, api, nextSpecID, nextCodeJobID, clock, env, tr, drv>>

\* updateGameSpecState, third statement
PostSpecJob_StateLog(r) ==
    /\ req[r].pc \in {"st_log", "go_log"}
    /\ game_spec_states' = LogTransition(game_spec_states, game_specs,
                               req[r].specID, req[r].cur, ReqNewState(req[r].pc))
    /\ req' = [req EXCEPT ![r].pc = ReqAfterState(req[r].pc), ![r].cur = NULL]
    /\ UNCHANGED <<game_specs, gen_spec_jobs, code_jobs, vectorIndex, repo, wk,
                   del, api, nextSpecID, nextCodeJobID, clock, env, tr, drv>>

\* a handler that does not look at the upsert's answer
PostSpecJob_UpsertUnchecked(r) ==
    /\ req[r].pc = "upsert"
    /\ \E ok \in BOOLEAN :
          IF ok
          THEN /\ vectorIndex' = VectorUpsert(vectorIndex, req[r].specID,
                                              normText(req[r].g))
               /\ req' = [req EXCEPT ![r].pc = "complete", ![r].acked = TRUE]
          ELSE /\ req' = [req EXCEPT ![r].pc = "complete"]
               /\ UNCHANGED vectorIndex
    /\ UNCHANGED <<game_specs, gen_spec_jobs, code_jobs, game_spec_states, repo,
                   wk, del, api, nextSpecID, nextCodeJobID, clock, env, tr, drv>>

\* POST /vector/upsert
PostSpecJob_Upsert(r) ==
    /\ req[r].pc = "upsert"
    /\ \E ok \in BOOLEAN :
          IF ok
          THEN /\ vectorIndex' = VectorUpsert(vectorIndex, req[r].specID,
                                              normText(req[r].g))
               /\ req' = [req EXCEPT ![r].pc = "complete", ![r].acked = TRUE]
          ELSE /\ req' = Reply(r, "BadGateway")
               /\ UNCHANGED vectorIndex
    /\ UNCHANGED <<game_specs, gen_spec_jobs, code_jobs, game_spec_states, repo,
                   wk, del, api, nextSpecID, nextCodeJobID, clock, env, tr, drv>>

\* the foreign key of gen_spec_jobs.result_spec_id rejects a spec that is gone
CompleteJob(jobs, jobID, specs, specID) ==
    IF specID \in DOMAIN specs
    THEN [jobs EXCEPT ![jobID].status = "COMPLETED", ![jobID].result_spec_id = specID]
    ELSE jobs

\* UPDATE gen_spec_jobs SET status='COMPLETED', result_spec_id; codeJobID :=
\* uuid.New(); go func(); the handler returns 200 COMPLETED
PostSpecJob_Complete(r) ==
    /\ req[r].pc = "complete"
    /\ gen_spec_jobs' = CompleteJob(gen_spec_jobs, r, game_specs, req[r].specID)
    /\ IF nextCodeJobID \in CodeJobIDs
       THEN /\ req' = [req EXCEPT ![r].pc = "go_read", ![r].resp = "COMPLETED",
                                  ![r].codeJobID = nextCodeJobID]
            /\ wk' = [wk EXCEPT ![nextCodeJobID].pc = "auto",
                                ![nextCodeJobID].specID = req[r].specID]
            /\ nextCodeJobID' = nextCodeJobID + 1
       ELSE /\ req' = [req EXCEPT ![r].pc = "go_read", ![r].resp = "COMPLETED"]
            /\ UNCHANGED <<wk, nextCodeJobID>>
    /\ UNCHANGED <<game_specs, code_jobs, game_spec_states, vectorIndex, repo,
                   del, api, nextSpecID, clock, env, tr, drv>>

\* a goroutine that marks the spec job FAILED when the code job cannot be
\* inserted
PostSpecJob_EnqueueMarkFailed(r, ticks) ==
    /\ req[r].pc = "go_insert"
    /\ \E ok \in BOOLEAN, tick \in ticks :
          LET j == req[r].codeJobID
          IN IF ok /\ j # 0 /\ req[r].specID \in DOMAIN game_specs
             THEN /\ code_jobs' = Put(code_jobs, j, CodeJobRow(req[r].specID, clock + tick))
                  /\ wk' = [wk EXCEPT ![j].pc = "queued"]
                  /\ clock' = clock + tick
                  /\ UNCHANGED gen_spec_jobs
             ELSE /\ wk' = IF j # 0 THEN [wk EXCEPT ![j].pc = "dead"] ELSE wk
                  /\ gen_spec_jobs' = [gen_spec_jobs EXCEPT ![r].status = "FAILED"]
                  /\ UNCHANGED <<code_jobs, clock>>
    /\ req' = [req EXCEPT ![r].pc = "done"]
    /\ UNCHANGED <<game_specs, game_spec_states, vectorIndex, repo,
                   del, api, nextSpecID, nextCodeJobID, env, tr, drv>>

\* in the goroutine: now := time.Now(), INSERT INTO code_jobs, and on success
\* go processCodeGeneration.  ticks: by how much the clock may have advanced
\* since the last insert.
PostSpecJob_Enqueue(r, ticks) ==
    /\ req[r].pc = "go_insert"
    /\ \E ok \in BOOLEAN, tick \in ticks :
          LET j == req[r].codeJobID
          IN IF ok /\ j # 0 /\ req[r].specID \in DOMAIN game_specs
             THEN /\ code_jobs' = Put(code_jobs, j, CodeJobRow(req[r].specID, clock + tick))
                  /\ wk' = [wk EXCEPT ![j].pc = "queued"]
                  /\ clock' = clock + tick
             ELSE /\ wk' = IF j # 0 THEN [wk EXCEPT ![j].pc = "dead"] ELSE wk
                  /\ UNCHANGED <<code_jobs, clock>>
    /\ req' = [req EXCEPT ![r].pc = "done"]
    /\ UNCHANGED <<game_specs, gen_spec_jobs, game_spec_states, vectorIndex, repo,
                   del, api, nextSpecID, nextCodeJobID, env, tr, drv>>

\* time.Now() of two inserts may be the same instant
Ticks == {0, 1}

PostSpecJob(r) ==
    \/ \E brief \in Briefs : PostSpecJob_Begin(r, brief)
    \/ PostSpecJob_SetRunning(r)
    \/ PostSpecJob_Generate(r, Gens)
    \/ PostSpecJob_Search(r)
    \/ PostSpecJob_MarkDuplicate(r)
    \/ PostSpecJob_Insert(r)
    \/ PostSpecJob_StateRead(r)
    \/ PostSpecJob_StateWrite(r)
    \/ PostSpecJob_StateLog(r)
    \/ PostSpecJob_Upsert(r)
    \/ PostSpecJob_Complete(r)
    \/ PostSpecJob_Enqueue(r, Ticks)

\* DELETE /vector/clear
VectorClear ==
    /\ vectorIndex # <<>>
    /\ vectorIndex' = <<>>
    /\ UNCHANGED <<game_specs, gen_spec_jobs, code_jobs, game_spec_states, repo,
                   req, wk, del, api, nextSpecID, nextCodeJobID, clock, env, tr, drv>>

----------------------------------------------------------------------------
(* The git driver *)

\* NewGitRepo leaves AutoPush at its zero value
NewGitRepo(e) == [RepoPath |-> e.GIT_REPO_PATH, RepoURL |-> e.GIT_REPO_URL,
                  Username |-> e.GIT_USERNAME, Token |-> e.GIT_TOKEN,
                  AutoPush |-> FALSE]

\* a driver that counts as configured without a token
IsConfiguredWithoutToken(g) == g.RepoPath # "" /\ g.RepoURL # ""

IsConfigured(g) == g.RepoPath # "" /\ g.RepoURL # "" /\ g.Token # ""

\* what the git commands of one CommitAndPush call do: pull, add, commit each
\* succeed or fail, push[i] is the outcome of the i-th push command
GitOutcomes == [pull : BOOLEAN, add : BOOLEAN, commit : BOOLEAN,
                push : [1..3 -> BOOLEAN]]

PushCommands == <<"push origin main", "push origin master", "push -u origin main">>

\* a driver that runs every push command, whatever the earlier ones returned
PushAttemptsAll(push, i) == SubSeq(PushCommands, i, Len(PushCommands))

\* the push commands CommitAndPush runs, in order: each is tried only when
\* every one before it failed
RECURSIVE PushAttempts(_, _)
PushAttempts(push, i) ==
    IF i > Len(PushCommands) THEN <<>>
    ELSE IF push[i] THEN <<PushCommands[i]>>
    ELSE <<PushCommands[i]>> \o PushAttempts(push, i + 1)

PushFailed(push) == ~push[1] /\ ~push[2] /\ ~push[3]

\* CommitAndPush(gamePath, gameTitle, gameID): the error it returns ("" for
\* nil), the working directory afterwards and the pushes it ran
CommitAndPush(rp, gameID, out) ==
    IF ~out.pull
    THEN [err |-> "failed to pull latest changes", repo |-> rp, pushes |-> <<>>]
    ELSE IF ~out.add \/ gameID \notin rp.folders
    THEN [err |-> "failed to add files to git", repo |-> rp, pushes |-> <<>>]
    ELSE IF ~out.commit
    THEN [err |-> "failed to commit changes", repo |-> rp, pushes |-> <<>>]
    ELSE LET committed == [rp EXCEPT !.committed = @ \cup {gameID}]
         IN IF PushFailed(out.push)
            THEN [err |-> "failed to push to remote", repo |-> committed,
                  pushes |-> PushAttempts(out.push, 1)]
            ELSE [err |-> "",
                  repo |-> [committed EXCEPT !.pushed = committed.committed],
                  pushes |-> PushAttempts(out.push, 1)]

\* CreateGameFolder: MkdirAll of RepoPath/gameID
CreateGameFolder(rp, gameID) == [rp EXCEPT !.folders = @ \cup {gameID}]

\* a remote URL that url.Parse rejects
BadURL == "%zz"

\* a URL with its userinfo; NoURL stands for no remote
URL(user, password, rest) == [user |-> user, password |-> password, rest |-> rest]

NoURL == URL("", "", "")

\* getAuthenticatedURL: the URL itself without a token, else the URL with the
\* userinfo username:token, or token: when no username is set
getAuthenticatedURL(g) ==
    IF g.Token = "" THEN [url |-> URL("", "", g.RepoURL), err |-> ""]
    ELSE IF g.RepoURL = BadURL
    THEN [url |-> NoURL, err |-> "failed to parse repository URL"]
    ELSE IF g.Username # ""
    THEN [url |-> URL(g.Username, g.Token, g.RepoURL), err |-> ""]
    ELSE [url |-> URL(g.Token, "", g.RepoURL), err |-> ""]

\* the local clone: the directory RepoPath, its .git, the remote origin and
\* the committer identity
NoClone == [dir |-> FALSE, isRepo |-> FALSE, origin |-> NoURL, userName |-> "",
            userEmail |-> ""]

\* what the environment does to the commands of one InitializeRepo call
InitOutcomes == [mkdir : BOOLEAN, init : BOOLEAN, remoteAdd : BOOLEAN,
                 setURL : BOOLEAN, config : BOOLEAN]

\* git config user.name and user.email, errors ignored
ConfigureUser(c, g, out) ==
    IF g.Username # "" /\ out.config
    THEN [c EXCEPT !.userName = g.Username,
                   !.userEmail = <<g.Username, "@users.noreply.github.com">>]
    ELSE c

\* a driver that does not look for .git and runs git init and git remote add
\* on every call
InitializeRepoUnchecked(c, g, out) ==
    IF ~c.dir /\ (g.RepoPath = "" \/ ~out.mkdir)
    THEN [err |-> "failed to create repo directory", clone |-> c]
    ELSE IF ~out.init
    THEN [err |-> "failed to initialize git repo", clone |-> [c EXCEPT !.dir = TRUE]]
    ELSE LET inited == [c EXCEPT !.dir = TRUE, !.isRepo = TRUE]
             auth == getAuthenticatedURL(g)
         IN IF g.RepoURL = ""
            THEN [err |-> "", clone |-> ConfigureUser(inited, g, out)]
            ELSE IF auth.err # ""
            THEN [err |-> "failed to create authenticated URL", clone |-> inited]
            ELSE IF inited.origin # NoURL \/ ~out.remoteAdd
            THEN [err |-> "failed to add remote origin", clone |-> inited]
            ELSE [err |-> "",
                  clone |-> ConfigureUser([inited EXCEPT !.origin = auth.url],
                                          g, out)]

\* InitializeRepo(): the error it returns ("" for nil) and the clone afterwards
InitializeRepo(c, g, out) ==
    IF ~c.dir /\ (g.RepoPath = "" \/ ~out.mkdir)
    THEN [err |-> "failed to create repo directory", clone |-> c]
    ELSE LET made == [c EXCEPT !.dir = TRUE]
         IN IF ~made.isRepo
            THEN IF ~out.init
                 THEN [err |-> "failed to initialize git repo", clone |-> made]
                 ELSE LET inited == [made EXCEPT !.isRepo = TRUE]
                          auth == getAuthenticatedURL(g)
                      IN IF g.RepoURL = ""
                         THEN [err |-> "", clone |-> ConfigureUser(inited, g, out)]
                         ELSE IF auth.err # ""
                         THEN [err |-> "failed to create authenticated URL",
                               clone |-> inited]
                         ELSE IF inited.origin # NoURL \/ ~out.remoteAdd
                         THEN [err |-> "failed to add remote origin",
                               clone |-> inited]
                         ELSE [err |-> "",
                               clone |-> ConfigureUser(
                                   [inited EXCEPT !.origin = auth.url], g, out)]
            ELSE LET auth == getAuthenticatedURL(g)
                 IN IF g.RepoURL # "" /\ g.Token # ""
                    THEN IF auth.err # ""
                         THEN [err |-> "failed to create authenticated URL",
                               clone |-> made]
                         ELSE [err |-> "",
                               clone |-> ConfigureUser(
                                   IF made.origin # NoURL /\ out.setURL
                                   THEN [made EXCEPT !.origin = auth.url]
                                   ELSE made, g, out)]
                    ELSE [err |-> "", clone |-> ConfigureUser(made, g, out)]

----------------------------------------------------------------------------
(* processCodeGeneration *)

LogStarting == <<"Starting automated git folder generation">>
LogRetrieved == <<"Game spec retrieved successfully">>
LogNotConfigured == <<"Git repository not configured">>
LogCreating == <<"Creating game folder with README.md">>
LogCommitting == <<"Committing and pushing to repository">>
LogGitDone == <<"Git operations completed, starting Devin code generation">>
LogTaskCreated == <<"Devin task created with session ID">>
LogCompleted == <<"Git repository setup completed and Devin task created",
                  "Devin session", "Monitoring Devin progress for completion...">>
LogNoSpec == <<"Failed to retrieve game spec">>
LogNoFolder == <<"Failed to create game folder">>
LogNoPush(err) == <<"Failed to commit and push: " \o err>>
LogNoTask == <<"Failed to create Devin task">>

\* one updateJobStatus call of worker j, then on to pc
Update(j, status, progress, logs, pc) ==
    /\ code_jobs' = updateJobStatus(code_jobs, j, status, progress, logs)
    /\ wk' = [wk EXCEPT ![j].pc = pc, ![j].passed = logs]

\* leave for the updateJobStatus(failed, ...) of an error branch
Fail(j, progress, logs) ==
    [wk EXCEPT ![j].pc = "fail", ![j].failAt = progress, ![j].fail = logs]

\* call sites of which one passes a string that is no state constant
WkNewStateMisspelt(pc) ==
    IF pc \in {"pcj_read", "pcj_write", "pcj_log"} THEN StateCreating
    ELSE IF pc \in {"gi_read", "gi_write", "gi_log"} THEN "git_init"
    ELSE StateCodeGenerating

\* call sites of which the last passes StateCodeGenerated
WkNewStateGenerated(pc) ==
    IF pc \in {"pcj_read", "pcj_write", "pcj_log"} THEN StateCreating
    ELSE IF pc \in {"gi_read", "gi_write", "gi_log"} THEN StateGitInited
    ELSE StateCodeGenerated

WkNewState(pc) ==
    IF pc \in {"pcj_read", "pcj_write", "pcj_log"} THEN StateCreating
    ELSE IF pc \in {"gi_read", "gi_write", "gi_log"} THEN StateGitInited
    ELSE StateCodeGenerating
WkAfterState(pc) ==
    IF pc \in {"pcj_read", "pcj_write", "pcj_log"} THEN "respond"
    ELSE IF pc \in {"gi_read", "gi_write", "gi_log"} THEN "upd85"
    ELSE "devin"
WkWritePC(pc) == IF pc = "pcj_read" THEN "pcj_write"
                 ELSE IF pc = "gi_read" THEN "gi_write" ELSE "cg_write"
WkLogPC(pc) == IF pc = "pcj_write" THEN "pcj_log"
               ELSE IF pc = "gi_write" THEN "gi_log" ELSE "cg_log"

\* a worker that gives up at its start while another job of the spec is
\* being processed
Worker_StartExclusive(j) ==
    /\ wk[j].pc = "queued"
    /\ IF \E k \in DOMAIN code_jobs :
             /\ k # j
             /\ code_jobs[k].game_spec_id = wk[j].specID
             /\ code_jobs[k].status = "processing"
       THEN Update(j, "failed", 0, <<>>, "done")
       ELSE Update(j, "processing", 20, LogStarting, "fetch")
    /\ UNCHANGED <<game_specs, gen_spec_jobs, game_spec_states, vectorIndex, repo,
                   req, del, api, nextSpecID, nextCodeJobID, clock, env, tr, drv>>

Worker_Start(j) ==
    /\ wk[j].pc = "queued"
    /\ Update(j, "processing", 20, LogStarting, "fetch")
    /\ UNCHANGED <<game_specs, gen_spec_jobs, game_spec_states, vectorIndex, repo,
                   req, del, api, nextSpecID, nextCodeJobID, clock, env, tr, drv>>

\* SELECT id, title, spec_markdown, spec_json FROM game_specs WHERE id = $1
Worker_Fetch(j) ==
    /\ wk[j].pc = "fetch"
    /\ wk' = IF wk[j].specID \in DOMAIN game_specs
             THEN [wk EXCEPT ![j].pc = "upd40"]
             ELSE Fail(j, 0, LogNoSpec)
    /\ UNCHANGED <<game_specs, gen_spec_jobs, code_jobs, game_spec_states,
                   vectorIndex, repo, req, del, api, nextSpecID, nextCodeJobID,
                   clock, env, tr, drv>>

Worker_Retrieved(j) ==
    /\ wk[j].pc = "upd40"
    /\ Update(j, "processing", 40, LogRetrieved, "configured")
    /\ UNCHANGED <<game_specs, gen_spec_jobs, game_spec_states, vectorIndex, repo,
                   req, del, api, nextSpecID, nextCodeJobID, clock, env, tr, drv>>

\* gitRepo := utils.NewGitRepo(); if !gitRepo.IsConfigured() { failed } else 60%
Worker_Configured(j) ==
    /\ wk[j].pc = "configured"
    /\ IF IsConfigured(NewGitRepo(env))
       THEN Update(j, "processing", 60, LogCreating, "mkdir")
       ELSE Update(j, "failed", 0, LogNotConfigured, "done")
    /\ UNCHANGED <<game_specs, gen_spec_jobs, game_spec_states, vectorIndex, repo,
                   req, del, api, nextSpecID, nextCodeJobID, clock, env, tr, drv>>

Worker_CreateGameFolder(j) ==
    /\ wk[j].pc = "mkdir"
    /\ \E ok \in BOOLEAN :
          IF ok
          THEN /\ repo' = CreateGameFolder(repo, wk[j].specID)
               /\ wk' = [wk EXCEPT ![j].pc = "upd80"]
          ELSE /\ wk' = Fail(j, 0, LogNoFolder)
               /\ UNCHANGED repo
    /\ UNCHANGED <<game_specs, gen_spec_jobs, code_jobs, game_spec_states,
                   vectorIndex, req, del, api, nextSpecID, nextCodeJobID, clock, env, tr, drv>>

\* a worker that records git_inited before CommitAndPush has run
Worker_CommittingMarked(j) ==
    /\ wk[j].pc = "upd80"
    /\ Update(j, "processing", 80, LogCommitting, "commit")
    /\ game_specs' = SetState(game_specs, wk[j].specID, StateGitInited)
    /\ UNCHANGED <<gen_spec_jobs, game_spec_states, vectorIndex, repo,
                   req, del, api, nextSpecID, nextCodeJobID, clock, env, tr, drv>>

Worker_Committing(j) ==
    /\ wk[j].pc = "upd80"
    /\ Update(j, "processing", 80, LogCommitting, "commit")
    /\ UNCHANGED <<game_specs, gen_spec_jobs, game_spec_states, vectorIndex, repo,
                   req, del, api, nextSpecID, nextCodeJobID, clock, env, tr, drv>>

\* a worker that goes on when CommitAndPush returns an error
AfterCommitAndPushIgnored(w, j, res) ==
    [w EXCEPT ![j].pc = "gi_read", ![j].err = res.err]

\* a worker that goes on to the 85% update without recording git_inited
AfterCommitAndPushUnrecorded(w, j, res) ==
    IF res.err # ""
    THEN [w EXCEPT ![j].pc = "fail", ![j].err = res.err, ![j].failAt = 0,
                   ![j].fail = LogNoPush(res.err)]
    ELSE [w EXCEPT ![j].pc = "upd85"]

\* what the worker does with CommitAndPush's result
AfterCommitAndPush(w, j, res) ==
    IF res.err # ""
    THEN [w EXCEPT ![j].pc = "fail", ![j].err = res.err, ![j].failAt = 0,
                   ![j].fail = LogNoPush(res.err)]
    ELSE [w EXCEPT ![j].pc = "gi_read"]

Worker_CommitAndPush(j) ==
    /\ wk[j].pc = "commit"
    /\ \E out \in GitOutcomes :
          LET res == CommitAndPush(repo, wk[j].specID, out)
          IN /\ repo' = res.repo
             /\ wk' = AfterCommitAndPush(wk, j, res)
    /\ UNCHANGED <<game_specs, gen_spec_jobs, code_jobs, game_spec_states,
                   vectorIndex, req, del, api, nextSpecID, nextCodeJobID, clock, env, tr, drv>>

\* updateGameSpecState, first statement
Worker_StateRead(j) ==
    /\ wk[j].pc \in {"pcj_read", "gi_read", "cg_read"}
    /\ wk' = IF wk[j].specID \in DOMAIN game_specs
             THEN [wk EXCEPT ![j].cur = ReadState(game_specs, wk[j].specID),
                             ![j].pc = WkWritePC(wk[j].pc)]
             ELSE [wk EXCEPT ![j].pc = WkAfterState(wk[j].pc)]
    /\ UNCHANGED <<game_specs, gen_spec_jobs, code_jobs, game_spec_states,
                   vectorIndex, repo, req, del, api, nextSpecID, nextCodeJobID,
                   clock, env, tr, drv>>

\* updateGameSpecState, second statement
Worker_StateWrite(j) ==
    /\ wk[j].pc \in {"pcj_write", "gi_write", "cg_write"}
    /\ game_specs' = SetState(game_specs, wk[j].specID, WkNewState(wk[j].pc))
    /\ wk' = [wk EXCEPT ![j].pc = WkLogPC(wk[j].pc)]
    /\ UNCHANGED <<gen_spec_jobs, code_jobs, game_spec_states, vectorIndex, repo,
                   req, del, api, nextSpecID, nextCodeJobID, clock, env, tr, drv>>

\* updateGameSpecState, third statement
Worker_StateLog(j) ==
    /\ wk[j].pc \in {"pcj_log", "gi_log", "cg_log"}
    /\ game_spec_states' = LogTransition(game_spec_states, game_specs,
                               wk[j].specID, wk[j].cur, WkNewState(wk[j].pc))
    /\ wk' = [wk EXCEPT ![j].pc = WkAfterState(wk[j].pc), ![j].cur = NULL]
    /\ UNCHANGED <<game_specs, gen_spec_jobs, code_jobs, vectorIndex, repo, req,
                   del, api, nextSpecID, nextCodeJobID, clock, env, tr, drv>>

Worker_GitDone(j) ==
    /\ wk[j].pc = "upd85"
    /\ Update(j, "processing", 85, LogGitDone, "cg_read")
    /\ UNCHANGED <<game_specs, gen_spec_jobs, game_spec_states, vectorIndex, repo,
                   req, del, api, nextSpecID, nextCodeJobID, clock, env, tr, drv>>

\* a delegation failure that resets the progress as the other error branches do
Worker_CreateDevinTaskReset(j) ==
    /\ wk[j].pc = "devin"
    /\ \E ok \in BOOLEAN :
          wk' = IF ok THEN [wk EXCEPT ![j].pc = "store", ![j].session = "session"]
                ELSE Fail(j, 0, LogNoTask)
    /\ UNCHANGED <<game_specs, gen_spec_jobs, code_jobs, game_spec_states,
                   vectorIndex, repo, req, del, api, nextSpecID, nextCodeJobID,
                   clock, env, tr, drv>>

\* gitRepo.CreateDevinTask: POST to the coding agent
Worker_CreateDevinTask(j) ==
    /\ wk[j].pc = "devin"
    /\ \E ok \in BOOLEAN :
          wk' = IF ok THEN [wk EXCEPT ![j].pc = "store", ![j].session = "session"]
                ELSE Fail(j, 85, LogNoTask)
    /\ UNCHANGED <<game_specs, gen_spec_jobs, code_jobs, game_spec_states,
                   vectorIndex, repo, req, del, api, nextSpecID, nextCodeJobID,
                   clock, env, tr, drv>>

\* a worker that fails the job when the session id cannot be stored
Worker_StoreSessionChecked(j) ==
    /\ wk[j].pc = "store"
    /\ \E ok \in BOOLEAN :
          IF ok /\ wk[j].specID \in DOMAIN game_specs
          THEN /\ game_specs' = [game_specs EXCEPT
                                    ![wk[j].specID].devin_session_id = wk[j].session]
               /\ wk' = [wk EXCEPT ![j].pc = "upd90"]
          ELSE /\ wk' = Fail(j, 85, <<"Failed to store Devin session ID">>)
               /\ UNCHANGED game_specs
    /\ UNCHANGED <<gen_spec_jobs, code_jobs, game_spec_states, vectorIndex, repo,
                   req, del, api, nextSpecID, nextCodeJobID, clock, env, tr, drv>>

\* UPDATE game_specs SET devin_session_id = $1 WHERE id = $2; an error is logged
Worker_StoreSession(j) ==
    /\ wk[j].pc = "store"
    /\ \E ok \in BOOLEAN :
          game_specs' = IF ok /\ wk[j].specID \in DOMAIN game_specs
                        THEN [game_specs EXCEPT
                                 ![wk[j].specID].devin_session_id = wk[j].session]
                        ELSE game_specs
    /\ wk' = [wk EXCEPT ![j].pc = "upd90"]
    /\ UNCHANGED <<gen_spec_jobs, code_jobs, game_spec_states, vectorIndex, repo,
                   req, del, api, nextSpecID, nextCodeJobID, clock, env, tr, drv>>

Worker_TaskCreated(j) ==
    /\ wk[j].pc = "upd90"
    /\ Update(j, "processing", 90, LogTaskCreated, "upd100")
    /\ UNCHANGED <<game_specs, gen_spec_jobs, game_spec_states, vectorIndex, repo,
                   req, del, api, nextSpecID, nextCodeJobID, clock, env, tr, drv>>

Worker_Completed(j) ==
    /\ wk[j].pc = "upd100"
    /\ Update(j, "completed", 100, LogCompleted, "done")
    /\ UNCHANGED <<game_specs, gen_spec_jobs, game_spec_states, vectorIndex, repo,
                   req, del, api, nextSpecID, nextCodeJobID, clock, env, tr, drv>>

\* an error branch that marks the job failed and keeps the progress it had
Worker_FailedInPlace(j) ==
    /\ wk[j].pc = "fail"
    /\ code_jobs' = updateJobStatus(code_jobs, j, "failed",
                                    IF j \in DOMAIN code_jobs
                                    THEN code_jobs[j].progress ELSE 0, wk[j].fail)
    /\ wk' = [wk EXCEPT ![j].pc = "done", ![j].passed = wk[j].fail,
                        ![j].fail = <<>>, ![j].failAt = 0]
    /\ UNCHANGED <<game_specs, gen_spec_jobs, game_spec_states, vectorIndex, repo,
                   req, del, api, nextSpecID, nextCodeJobID, clock, env, tr, drv>>

\* the updateJobStatus(db, jobID, "failed", ...) of an error branch
Worker_Failed(j) ==
    /\ wk[j].pc = "fail"
    /\ code_jobs' = updateJobStatus(code_jobs, j, "failed", wk[j].failAt, wk[j].fail)
    /\ wk' = [wk EXCEPT ![j].pc = "done", ![j].passed = wk[j].fail,
                        ![j].fail = <<>>, ![j].failAt = 0]
    /\ UNCHANGED <<game_specs, gen_spec_jobs, game_spec_states, vectorIndex, repo,
                   req, del, api, nextSpecID, nextCodeJobID, clock, env, tr, drv>>

processCodeGeneration(j) ==
    \/ Worker_Start(j)
    \/ Worker_Fetch(j)
    \/ Worker_Retrieved(j)
    \/ Worker_Configured(j)
    \/ Worker_CreateGameFolder(j)
    \/ Worker_Committing(j)
    \/ Worker_CommitAndPush(j)
    \/ Worker_StateRead(j)
    \/ Worker_StateWrite(j)
    \/ Worker_StateLog(j)
    \/ Worker_GitDone(j)
    \/ Worker_CreateDevinTask(j)
    \/ Worker_StoreSession(j)
    \/ Worker_TaskCreated(j)
    \/ Worker_Completed(j)
    \/ Worker_Failed(j)

\* the statement after each updateJobStatus call of processCodeGeneration
AfterUpdate(pc, configured) ==
    IF pc = "queued" THEN "fetch"
    ELSE IF pc = "upd40" THEN "configured"
    ELSE IF pc = "configured" THEN (IF configured THEN "mkdir" ELSE "done")
    ELSE IF pc = "upd80" THEN "commit"
    ELSE IF pc = "upd85" THEN "cg_read"
    ELSE IF pc = "upd90" THEN "upd100"
    ELSE "done"

\* an updateJobStatus call whose db.Exec returns an error: the error is
\* dropped, the row keeps what it had and the worker goes on
Worker_UpdateFailed(j) ==
    /\ wk[j].pc \in {"queued", "upd40", "configured", "upd80", "upd85", "upd90",
                     "upd100", "fail"}
    /\ wk' = [wk EXCEPT ![j].pc = AfterUpdate(wk[j].pc, IsConfigured(NewGitRepo(env))),
                        ![j].fail = <<>>, ![j].failAt = 0]
    /\ UNCHANGED <<game_specs, gen_spec_jobs, code_jobs, game_spec_states,
                   vectorIndex, repo, req, del, api, nextSpecID, nextCodeJobID,
                   clock, env, tr, drv>>

----------------------------------------------------------------------------
(* The code-job handlers *)

SpecIDs == 1..MaxSpecJobs

Respond(op, specID, job, code) == [op |-> op, spec |-> specID, job |-> job, code |-> code]

\* PostCodeJob: validation and INSERT INTO code_jobs; the foreign key rejects
\* a spec that does not exist
PostCodeJob_Insert(specID, ticks) ==
    /\ nextCodeJobID \in CodeJobIDs
    /\ \E tick \in ticks :
          IF specID = 0
          THEN /\ api' = Respond("PostCodeJob", specID, 0, "BadRequest")
               /\ UNCHANGED <<code_jobs, wk, nextCodeJobID, clock>>
          ELSE IF specID \notin DOMAIN game_specs
          THEN /\ api' = Respond("PostCodeJob", specID, 0, "InternalServerError")
               /\ UNCHANGED <<code_jobs, wk, nextCodeJobID, clock>>
          ELSE /\ code_jobs' = Put(code_jobs, nextCodeJobID,
                                   CodeJobRow(specID, clock + tick))
               /\ wk' = [wk EXCEPT ![nextCodeJobID].pc = "pcj_read",
                                   ![nextCodeJobID].specID = specID]
               /\ nextCodeJobID' = nextCodeJobID + 1
               /\ clock' = clock + tick
               /\ UNCHANGED api
    /\ UNCHANGED <<game_specs, gen_spec_jobs, game_spec_states, vectorIndex, repo,
                   req, del, nextSpecID, env, tr, drv>>

\* PostCodeJob after updateGameSpecState: go processCodeGeneration; 200 queued
PostCodeJob_Respond(j) ==
    /\ wk[j].pc = "respond"
    /\ wk' = [wk EXCEPT ![j].pc = "queued"]
    /\ api' = Respond("PostCodeJob", wk[j].specID, j, "queued")
    /\ UNCHANGED <<game_specs, gen_spec_jobs, code_jobs, game_spec_states,
                   vectorIndex, repo, req, del, nextSpecID, nextCodeJobID, clock, env, tr, drv>>

\* a retry that is refused while an earlier job of the spec has not failed
RetryCodeJob_SelectIfFailed(specID) ==
    /\ nextCodeJobID \in CodeJobIDs
    /\ IF specID \notin DOMAIN game_specs
       THEN /\ api' = Respond("RetryCodeJob", specID, 0, "NotFound")
            /\ UNCHANGED <<wk, nextCodeJobID>>
       ELSE IF \E k \in DOMAIN code_jobs : /\ code_jobs[k].game_spec_id = specID
                                           /\ code_jobs[k].status # "failed"
            THEN /\ api' = Respond("RetryCodeJob", specID, 0, "Conflict")
                 /\ UNCHANGED <<wk, nextCodeJobID>>
            ELSE /\ wk' = [wk EXCEPT ![nextCodeJobID].pc = "retry_insert",
                                     ![nextCodeJobID].specID = specID]
                 /\ nextCodeJobID' = nextCodeJobID + 1
                 /\ UNCHANGED api
    /\ UNCHANGED <<game_specs, gen_spec_jobs, code_jobs, game_spec_states,
                   vectorIndex, repo, req, del, nextSpecID, clock, env, tr, drv>>

\* RetryCodeJob: SELECT spec_json FROM game_specs WHERE id = $1
RetryCodeJob_Select(specID) ==
    /\ nextCodeJobID \in CodeJobIDs
    /\ IF specID \in DOMAIN game_specs
       THEN /\ wk' = [wk EXCEPT ![nextCodeJobID].pc = "retry_insert",
                                ![nextCodeJobID].specID = specID]
            /\ nextCodeJobID' = nextCodeJobID + 1
            /\ UNCHANGED api
       ELSE /\ api' = Respond("RetryCodeJob", specID, 0, "NotFound")
            /\ UNCHANGED <<wk, nextCodeJobID>>
    /\ UNCHANGED <<game_specs, gen_spec_jobs, code_jobs, game_spec_states,
                   vectorIndex, repo, req, del, nextSpecID, clock, env, tr, drv>>

\* a retry that also puts the earlier jobs of the spec back to queued
RetryCodeJob_Requeue(j, ticks) ==
    /\ wk[j].pc = "retry_insert"
    /\ \E tick \in ticks :
          IF wk[j].specID \in DOMAIN game_specs
          THEN /\ code_jobs' = Put([k \in DOMAIN code_jobs |->
                                       IF code_jobs[k].game_spec_id = wk[j].specID
                                       THEN [code_jobs[k] EXCEPT !.status = "queued"]
                                       ELSE code_jobs[k]],
                                   j, CodeJobRow(wk[j].specID, clock + tick))
               /\ wk' = [wk EXCEPT ![j].pc = "queued"]
               /\ api' = Respond("RetryCodeJob", wk[j].specID, j, "queued")
               /\ clock' = clock + tick
          ELSE /\ wk' = [wk EXCEPT ![j].pc = "dead"]
               /\ api' = Respond("RetryCodeJob", wk[j].specID, 0, "InternalServerError")
               /\ UNCHANGED <<code_jobs, clock>>
    /\ UNCHANGED <<game_specs, gen_spec_jobs, game_spec_states, vectorIndex, repo,
                   req, del, nextSpecID, nextCodeJobID, env, tr, drv>>

\* RetryCodeJob: INSERT INTO code_jobs; go processCodeGeneration; 200 queued
RetryCodeJob_Insert(j, ticks) ==
    /\ wk[j].pc = "retry_insert"
    /\ \E tick \in ticks :
          IF wk[j].specID \in DOMAIN game_specs
          THEN /\ code_jobs' = Put(code_jobs, j, CodeJobRow(wk[j].specID, clock + tick))
               /\ wk' = [wk EXCEPT ![j].pc = "queued"]
               /\ api' = Respond("RetryCodeJob", wk[j].specID, j, "queued")
               /\ clock' = clock + tick
          ELSE /\ wk' = [wk EXCEPT ![j].pc = "dead"]
               /\ api' = Respond("RetryCodeJob", wk[j].specID, 0, "InternalServerError")
               /\ UNCHANGED <<code_jobs, clock>>
    /\ UNCHANGED <<game_specs, gen_spec_jobs, game_spec_states, vectorIndex, repo,
                   req, del, nextSpecID, nextCodeJobID, env, tr, drv>>

\* the same query with ORDER BY created_at ASC
RECURSIVE OrderByCreatedAtAsc(_, _)
OrderByCreatedAtAsc(jobs, ids) ==
    IF ids = {} THEN {<<>>}
    ELSE UNION {{<<j>> \o rest : rest \in OrderByCreatedAtAsc(jobs, ids \ {j})} :
                 j \in {i \in ids : \A k \in ids : jobs[i].created_at <= jobs[k].created_at}}

\* SELECT ... FROM code_jobs WHERE game_spec_id = $1 ORDER BY created_at DESC
RECURSIVE OrderByCreatedAtDesc(_, _)
OrderByCreatedAtDesc(jobs, ids) ==
    IF ids = {} THEN {<<>>}
    ELSE UNION {{<<j>> \o rest : rest \in OrderByCreatedAtDesc(jobs, ids \ {j})} :
                 j \in {i \in ids : \A k \in ids : jobs[k].created_at <= jobs[i].created_at}}

\* ... LIMIT 1: the rows the query may return (rows of equal created_at come
\* in either order); empty when no row matches
LatestCodeJobs(jobs, specID) ==
    LET ids == {j \in DOMAIN jobs : jobs[j].game_spec_id = specID}
    IN {o[1] : o \in {o \in OrderByCreatedAtDesc(jobs, ids) : Len(o) > 0}}

GetCodeJobBySpecID(specID) ==
    /\ LET rows == LatestCodeJobs(code_jobs, specID)
       IN IF rows = {}
          THEN api' = Respond("GetCodeJobBySpecID", specID, 0, "not_started")
          ELSE \E j \in rows :
                  api' = Respond("GetCodeJobBySpecID", specID, j, code_jobs[j].status)
    /\ UNCHANGED <<game_specs, gen_spec_jobs, code_jobs, game_spec_states,
                   vectorIndex, repo, req, wk, del, nextSpecID, nextCodeJobID,
                   clock, env, tr, drv>>

----------------------------------------------------------------------------
(* DeleteSpec *)

RemoveOutcomes == [init : BOOLEAN, rm : BOOLEAN, stage : BOOLEAN, commit : BOOLEAN,
                   push : [1..2 -> BOOLEAN]]

\* RemoveGameFolders(gameID, gameTitle): the error ("" for nil) and the working
\* directory afterwards.  git add -A stages every difference between HEAD and
\* the working tree; nothing is committed when there is none.
RemoveGameFolders(rp, g, gameID, out) ==
    IF ~IsConfigured(g)
    THEN [err |-> "git repository not configured", repo |-> rp, pushes |-> <<>>]
    ELSE IF gameID \notin rp.folders
    THEN [err |-> "", repo |-> rp, pushes |-> <<>>]
    ELSE IF ~out.rm
    THEN [err |-> "failed to remove folder", repo |-> rp, pushes |-> <<>>]
    ELSE LET removed == [rp EXCEPT !.folders = @ \ {gameID}]
         IN IF ~out.stage
            THEN [err |-> "failed to stage deletion", repo |-> removed,
                  pushes |-> <<>>]
            ELSE IF removed.folders = removed.committed
            THEN [err |-> "", repo |-> removed, pushes |-> <<>>]
            ELSE IF ~out.commit
            THEN [err |-> "failed to commit folder deletion", repo |-> removed,
                  pushes |-> <<>>]
            ELSE LET committed == [removed EXCEPT !.committed = removed.folders]
                 IN IF ~g.AutoPush
                    THEN [err |-> "", repo |-> committed, pushes |-> <<>>]
                    ELSE IF ~out.push[1] /\ ~out.push[2]
                    THEN [err |-> "failed to push deletion to remote",
                          repo |-> committed,
                          pushes |-> <<PushCommands[1], PushCommands[2]>>]
                    ELSE [err |-> "",
                          repo |-> [committed EXCEPT !.pushed = committed.committed],
                          pushes |-> IF out.push[1] THEN <<PushCommands[1]>>
                                     ELSE <<PushCommands[1], PushCommands[2]>>]

DelReply(code) == [del EXCEPT !.pc = "done", !.resp = code]

\* SELECT EXISTS(SELECT 1 FROM game_specs WHERE id = $1)
DeleteSpec_Begin(id) ==
    /\ del.pc \in {"idle", "done"}
    /\ del' = IF id \in DOMAIN game_specs
              THEN [pc |-> "git", id |-> id, git |-> FALSE, resp |-> "none"]
              ELSE [pc |-> "done", id |-> id, git |-> FALSE, resp |-> "NotFound"]
    /\ UNCHANGED <<game_specs, gen_spec_jobs, code_jobs, game_spec_states,
                   vectorIndex, repo, req, wk, api, nextSpecID, nextCodeJobID,
                   clock, env, tr, drv>>

\* a git cleanup whose failure ends the call with an error
DeleteSpec_GitStrict ==
    /\ del.pc = "git"
    /\ LET g == NewGitRepo(env)
       IN IF ~IsConfigured(g)
          THEN /\ del' = [del EXCEPT !.pc = "vector"]
               /\ UNCHANGED repo
          ELSE \E out \in RemoveOutcomes :
                  LET res == RemoveGameFolders(repo, g, del.id, out)
                  IN IF ~out.init
                     THEN /\ del' = DelReply("InternalServerError")
                          /\ UNCHANGED repo
                     ELSE /\ del' = IF res.err = ""
                                    THEN [del EXCEPT !.pc = "vector", !.git = TRUE]
                                    ELSE DelReply("InternalServerError")
                          /\ repo' = res.repo
    /\ UNCHANGED <<game_specs, gen_spec_jobs, code_jobs, game_spec_states,
                   vectorIndex, req, wk, api, nextSpecID, nextCodeJobID, clock, env, tr, drv>>

\* the git cleanup: InitializeRepo and RemoveGameFolders, errors only logged
DeleteSpec_Git ==
    /\ del.pc = "git"
    /\ LET g == NewGitRepo(env)
       IN IF ~IsConfigured(g)
          THEN /\ del' = [del EXCEPT !.pc = "vector"]
               /\ UNCHANGED repo
          ELSE \E out \in RemoveOutcomes :
                  LET res == RemoveGameFolders(repo, g, del.id, out)
                  IN IF ~out.init
                     THEN /\ del' = [del EXCEPT !.pc = "vector"]
                          /\ UNCHANGED repo
                     ELSE /\ del' = [del EXCEPT !.pc = "vector", !.git = (res.err = "")]
                          /\ repo' = res.repo
    /\ UNCHANGED <<game_specs, gen_spec_jobs, code_jobs, game_spec_states,
                   vectorIndex, req, wk, api, nextSpecID, nextCodeJobID, clock, env, tr, drv>>

\* DELETE /vector/spec/:id
DeleteSpec_Vector ==
    /\ del.pc = "vector"
    /\ \E ok \in BOOLEAN :
          IF ok
          THEN /\ vectorIndex' = VectorDelete(vectorIndex, del.id)
               /\ del' = [del EXCEPT !.pc = "jobs"]
          ELSE /\ del' = DelReply("InternalServerError")
               /\ UNCHANGED vectorIndex
    /\ UNCHANGED <<game_specs, gen_spec_jobs, code_jobs, game_spec_states, repo,
                   req, wk, api, nextSpecID, nextCodeJobID, clock, env, tr, drv>>

\* DELETE FROM code_jobs WHERE game_spec_id = $1
DeleteSpec_Jobs ==
    /\ del.pc = "jobs"
    /\ code_jobs' = Drop(code_jobs, {j \in DOMAIN code_jobs :
                                        code_jobs[j].game_spec_id = del.id})
    /\ del' = [del EXCEPT !.pc = "spec"]
    /\ UNCHANGED <<game_specs, gen_spec_jobs, game_spec_states, vectorIndex, repo,
                   req, wk, api, nextSpecID, nextCodeJobID, clock, env, tr, drv>>

\* ON DELETE CASCADE of game_spec_states
CascadeStates(log, id) == SelectSeq(log, LAMBDA row : row.game_spec_id # id)

\* ON DELETE SET NULL of gen_spec_jobs.result_spec_id
NullifyResult(jobs, id) ==
    [i \in DOMAIN jobs |-> IF jobs[i].result_spec_id = id
                           THEN [jobs[i] EXCEPT !.result_spec_id = 0]
                           ELSE jobs[i]]

\* DELETE FROM game_specs WHERE id = $1; code_jobs.game_spec_id has no
\* ON DELETE action, so a code job inserted since blocks it
DeleteSpec_Spec ==
    /\ del.pc = "spec"
    /\ IF \E j \in DOMAIN code_jobs : code_jobs[j].game_spec_id = del.id
       THEN /\ del' = DelReply("InternalServerError")
            /\ UNCHANGED <<game_specs, game_spec_states, gen_spec_jobs>>
       ELSE /\ game_specs' = Drop(game_specs, {del.id})
            /\ game_spec_states' = CascadeStates(game_spec_states, del.id)
            /\ gen_spec_jobs' = NullifyResult(gen_spec_jobs, del.id)
            /\ del' = DelReply("OK")
    /\ UNCHANGED <<code_jobs, vectorIndex, repo, req, wk, api, nextSpecID,
                   nextCodeJobID, clock, env, tr, drv>>

DeleteSpec ==
    \/ \E id \in SpecIDs : DeleteSpec_Begin(id)
    \/ DeleteSpec_Git
    \/ DeleteSpec_Vector
    \/ DeleteSpec_Jobs
    \/ DeleteSpec_Spec

----------------------------------------------------------------------------

\* the driver's calls, made one after the other by a caller of its own
\* of a call are kept: the operation, the game id, the outcomes of
\* InitializeRepo's commands, the error returned, the push commands run and
\* how each of them ended
NoCall == [op |-> "none", id |-> 0, out |-> <<>>, err |-> "", pushes |-> <<>>,
           ok |-> <<>>]

\* of the call before the last, the operation and the error are kept
Before(call) == [op |-> call.op, err |-> call.err]

DrvInit == [clone |-> NoClone, call |-> NoCall, prev |-> Before(NoCall), n |-> 0]

Called(op, id, out, err, pushes, push) ==
    [op |-> op, id |-> id, out |-> out, err |-> err, pushes |-> pushes,
     ok |-> [i \in 1..Len(pushes) |-> push[i]]]

Driver_InitializeRepo ==
    /\ drv.n < MaxDriverCalls
    /\ \E out \in InitOutcomes :
          LET res == InitializeRepo(drv.clone, NewGitRepo(env), out)
          IN drv' = [clone |-> res.clone,
                     call |-> Called("InitializeRepo", 0, out, res.err, <<>>, <<>>),
                     prev |-> Before(drv.call),
                     n |-> drv.n + 1]
    /\ UNCHANGED <<game_specs, gen_spec_jobs, code_jobs, game_spec_states,
                   vectorIndex, repo, req, wk, del, api, nextSpecID,
                   nextCodeJobID, clock, env, tr>>

Driver_CreateGameFolder(gameID) ==
    /\ drv.n < MaxDriverCalls
    /\ \E ok \in BOOLEAN :
          /\ repo' = IF ok THEN CreateGameFolder(repo, gameID) ELSE repo
          /\ drv' = [drv EXCEPT
                        !.call = Called("CreateGameFolder", gameID, <<>>,
                                        IF ok THEN ""
                                        ELSE "failed to create game folder",
                                        <<>>, <<>>),
                        !.prev = Before(drv.call),
                           !.n = @ + 1]
    /\ UNCHANGED <<game_specs, gen_spec_jobs, code_jobs, game_spec_states,
                   vectorIndex, req, wk, del, api, nextSpecID, nextCodeJobID,
                   clock, env, tr>>

Driver_CommitAndPush(gameID) ==
    /\ drv.n < MaxDriverCalls
    /\ \E out \in GitOutcomes :
          LET res == CommitAndPush(repo, gameID, out)
          IN /\ repo' = res.repo
             /\ drv' = [drv EXCEPT
                           !.call = Called("CommitAndPush", gameID, <<>>, res.err,
                                           res.pushes, out.push),
                           !.prev = Before(drv.call),
                           !.n = @ + 1]
    /\ UNCHANGED <<game_specs, gen_spec_jobs, code_jobs, game_spec_states,
                   vectorIndex, req, wk, del, api, nextSpecID, nextCodeJobID,
                   clock, env, tr>>

Driver_RemoveGameFolders(gameID) ==
    /\ drv.n < MaxDriverCalls
    /\ \E out \in RemoveOutcomes :
          LET res == RemoveGameFolders(repo, NewGitRepo(env), gameID, out)
          IN /\ repo' = res.repo
             /\ drv' = [drv EXCEPT
                           !.call = Called("RemoveGameFolders", gameID, <<>>,
                                           res.err, res.pushes, out.push),
                           !.prev = Before(drv.call),
                           !.n = @ + 1]
    /\ UNCHANGED <<game_specs, gen_spec_jobs, code_jobs, game_spec_states,
                   vectorIndex, req, wk, del, api, nextSpecID, nextCodeJobID,
                   clock, env, tr>>

----------------------------------------------------------------------------

\* the git settings of the environment: each of them set or empty; the
\* scenarios of the coordinators run without a username and with
\* GIT_AUTO_PUSH unset
Envs == [GIT_REPO_PATH : {"", "/repo"}, GIT_REPO_URL : {"", "https://git/r.git"},
         GIT_USERNAME : {""}, GIT_TOKEN : {"", "token"}, GIT_AUTO_PUSH : {""}]

\* the settings the driver is called with on its own
GitEnvs == [GIT_REPO_PATH : {"", "/repo"},
           GIT_REPO_URL : {"", "https://git/r.git", BadURL},
           GIT_USERNAME : {"", "bot"}, GIT_TOKEN : {"", "token"},
           GIT_AUTO_PUSH : {"", "true"}]

\* what may be at RepoPath before the first call: nothing, a directory, a
\* repository without a remote, a clone of the remote
Clones == {NoClone,
           [NoClone EXCEPT !.dir = TRUE],
           [NoClone EXCEPT !.dir = TRUE, !.isRepo = TRUE],
           [NoClone EXCEPT !.dir = TRUE, !.isRepo = TRUE,
                           !.origin = URL("", "", "https://git/r.git")]}

Init ==
    /\ game_specs = <<>>
    /\ gen_spec_jobs = <<>>
    /\ code_jobs = <<>>
    /\ game_spec_states = <<>>
    /\ vectorIndex = <<>>
    /\ repo = [folders |-> {}, committed |-> {}, pushed |-> {}]
    /\ req = [r \in ReqIDs |-> ReqInit]
    /\ wk = [j \in CodeJobIDs |-> WkInit]
    /\ del = [pc |-> "idle", id |-> 0, git |-> FALSE, resp |-> "none"]
    /\ api = [op |-> "none", spec |-> 0, job |-> 0, code |-> "none"]
    /\ nextSpecID = 1
    /\ nextCodeJobID = 1
    /\ clock = 1
    /\ env \in Envs
    /\ tr = [t \in Callers |-> TrInit]
    /\ drv = DrvInit

\* the spec-job coordinator alone: concurrent PostSpecJob calls, code jobs are
\* enqueued and their workers left unscheduled
InitGen == Init /\ IsConfigured(NewGitRepo(env))

NextGen ==
    \/ \E r \in ReqIDs : PostSpecJob(r)
    \/ VectorClear

SpecGen == InitGen /\ [][NextGen]_vars

\* no PostSpecJob call, nor the goroutine it leaves behind, is under way
Settled == \A r \in ReqIDs : req[r].pc \in {"idle", "done"}

\* the code-job coordinator: one PostSpecJob call on an empty index creates
\* a spec and enqueues its code job; once that call is over, code jobs are
\* submitted and retried; the workers run concurrently.  The clock advances
\* between inserts.
OneGen == {g \in Gens : g.spec_json.controls = 1 /\ g.spec_json.genre = 1}

Tick == {1}

FirstSpecJob ==
    \/ \E brief \in Briefs : PostSpecJob_Begin(1, brief)
    \/ PostSpecJob_SetRunning(1)
    \/ PostSpecJob_Generate(1, OneGen)
    \/ PostSpecJob_Search(1)
    \/ PostSpecJob_Insert(1)
    \/ PostSpecJob_StateRead(1)
    \/ PostSpecJob_StateWrite(1)
    \/ PostSpecJob_StateLog(1)
    \/ PostSpecJob_Upsert(1)
    \/ PostSpecJob_Complete(1)
    \/ PostSpecJob_Enqueue(1, Tick)

NextCode ==
    \/ FirstSpecJob
    \/ \E id \in 0..MaxSpecJobs : Settled /\ PostCodeJob_Insert(id, Tick)
    \/ \E j \in CodeJobIDs : PostCodeJob_Respond(j)
    \/ \E id \in SpecIDs : Settled /\ RetryCodeJob_Select(id)
    \/ \E j \in CodeJobIDs : RetryCodeJob_Insert(j, Tick)
    \/ \E j \in CodeJobIDs : processCodeGeneration(j)

SpecCode == Init /\ [][NextCode]_vars

\* the goroutine PostSpecJob leaves behind
PostSpecJob_Detached(r) ==
    /\ req[r].pc \in {"go_read", "go_write", "go_log", "go_insert"}
    /\ \/ PostSpecJob_StateRead(r)
       \/ PostSpecJob_StateWrite(r)
       \/ PostSpecJob_StateLog(r)
       \/ PostSpecJob_Enqueue(r, Tick)

\* the code-job coordinator with its goroutines scheduled fairly: a goroutine
\* that can take its next step takes it in the end; no handler call has to
\* arrive
SpecLive ==
    /\ Init
    /\ [][NextCode]_vars
    /\ WF_vars(PostSpecJob_Detached(1))
    /\ \A j \in CodeJobIDs : WF_vars(processCodeGeneration(j))

\* the worker of the automatic code job with a database whose UPDATE of
\* code_jobs may return an error, the goroutines scheduled fairly
NextLossy ==
    \/ FirstSpecJob
    \/ \E j \in CodeJobIDs : processCodeGeneration(j)
    \/ \E j \in CodeJobIDs : Worker_UpdateFailed(j)

SpecLossy ==
    /\ Init
    /\ [][NextLossy]_vars
    /\ WF_vars(PostSpecJob_Detached(1))
    /\ \A j \in CodeJobIDs :
          WF_vars(processCodeGeneration(j) \/ Worker_UpdateFailed(j))

\* the code-job API: PostSpecJob, PostCodeJob and RetryCodeJob are called one
\* after the other, GetCodeJobBySpecID at any time; the workers are left
\* unscheduled, so that the state statements that run are PostCodeJob's.  The
\* generator answers with one of two specs that are no duplicates of each
\* other.
TwoGens == {g \in Gens : g.spec_json.genre = 1 /\ g.spec_json.controls # 2}

NextQuery ==
    \/ \E r \in ReqIDs, brief \in Briefs : Settled /\ PostSpecJob_Begin(r, brief)
    \/ \E r \in ReqIDs : PostSpecJob_SetRunning(r)
    \/ \E r \in ReqIDs : PostSpecJob_Generate(r, TwoGens)
    \/ \E r \in ReqIDs : PostSpecJob_Search(r)
    \/ \E r \in ReqIDs : PostSpecJob_MarkDuplicate(r)
    \/ \E r \in ReqIDs : PostSpecJob_Insert(r)
    \/ \E r \in ReqIDs : PostSpecJob_StateRead(r)
    \/ \E r \in ReqIDs : PostSpecJob_StateWrite(r)
    \/ \E r \in ReqIDs : PostSpecJob_StateLog(r)
    \/ \E r \in ReqIDs : PostSpecJob_Upsert(r)
    \/ \E r \in ReqIDs : PostSpecJob_Complete(r)
    \/ \E r \in ReqIDs : PostSpecJob_Enqueue(r, Ticks)
    \/ \E id \in 0..MaxSpecJobs : Settled /\ PostCodeJob_Insert(id, Ticks)
    \/ \E j \in CodeJobIDs : Worker_StateRead(j)
    \/ \E j \in CodeJobIDs : Worker_StateWrite(j)
    \/ \E j \in CodeJobIDs : Worker_StateLog(j)
    \/ \E j \in CodeJobIDs : PostCodeJob_Respond(j)
    \/ \E id \in SpecIDs : Settled /\ RetryCodeJob_Select(id)
    \/ \E j \in CodeJobIDs : RetryCodeJob_Insert(j, Ticks)
    \/ \E id \in 0..MaxSpecJobs : GetCodeJobBySpecID(id)

SpecQuery == InitGen /\ [][NextQuery]_vars

\* the state tracker: one PostSpecJob call creates a spec; meanwhile and
\* afterwards, callers call updateGameSpecState with any spec id and any
\* newState, concurrently
NextTracker ==
    \/ FirstSpecJob
    \/ \E t \in Callers, specID \in SpecIDs, newState \in AnyState :
          updateGameSpecState_Read(t, specID, newState)
    \/ \E t \in Callers : updateGameSpecState_Write(t)
    \/ \E t \in Callers : updateGameSpecState_Log(t)

SpecTracker == InitGen /\ [][NextTracker]_vars

\* deletion: one PostSpecJob call, its goroutine and the worker of its code
\* job run while DeleteSpec is called, for the id of the spec or for an id no
\* spec has, at any time and any number of times
NextDelete ==
    \/ FirstSpecJob
    \/ \E j \in CodeJobIDs : processCodeGeneration(j)
    \/ \E id \in SpecIDs : DeleteSpec_Begin(id)
    \/ DeleteSpec_Git
    \/ DeleteSpec_Vector
    \/ DeleteSpec_Jobs
    \/ DeleteSpec_Spec

SpecDelete == Init /\ [][NextDelete]_vars

\* the git driver alone: its operations are called one after the other, in
\* any order, for the folder of one game, with any settings and on any clone
GameIDs == {1}

\* the working directory before the first call: empty, or holding the game's
\* folder, created, committed or pushed by earlier runs
Repos == {[folders |-> {}, committed |-> {}, pushed |-> {}],
          [folders |-> GameIDs, committed |-> {}, pushed |-> {}],
          [folders |-> GameIDs, committed |-> GameIDs, pushed |-> {}],
          [folders |-> GameIDs, committed |-> GameIDs, pushed |-> GameIDs]}

InitGit ==
    /\ game_specs = <<>>
    /\ gen_spec_jobs = <<>>
    /\ code_jobs = <<>>
    /\ game_spec_states = <<>>
    /\ vectorIndex = <<>>
    /\ repo \in Repos
    /\ req = [r \in ReqIDs |-> ReqInit]
    /\ wk = [j \in CodeJobIDs |-> WkInit]
    /\ del = [pc |-> "idle", id |-> 0, git |-> FALSE, resp |-> "none"]
    /\ api = [op |-> "none", spec |-> 0, job |-> 0, code |-> "none"]
    /\ nextSpecID = 1
    /\ nextCodeJobID = 1
    /\ clock = 1
    /\ env \in GitEnvs
    /\ tr = [t \in Callers |-> TrInit]
    /\ \E c \in Clones : drv = [DrvInit EXCEPT !.clone = c]

NextGit ==
    \/ Driver_InitializeRepo
    \/ \E gameID \in GameIDs : Driver_CreateGameFolder(gameID)
    \/ \E gameID \in GameIDs : Driver_CommitAndPush(gameID)
    \/ \E gameID \in GameIDs : Driver_RemoveGameFolders(gameID)

SpecGit == InitGit /\ [][NextGit]_vars

\* the whole system
Next ==
    \/ \E r \in ReqIDs : PostSpecJob(r)
    \/ \E j \in CodeJobIDs : processCodeGeneration(j)
    \/ \E id \in 0..MaxSpecJobs : PostCodeJob_Insert(id, Ticks)
    \/ \E j \in CodeJobIDs : PostCodeJob_Respond(j)
    \/ \E id \in SpecIDs : RetryCodeJob_Select(id)
    \/ \E j \in CodeJobIDs : RetryCodeJob_Insert(j, Ticks)
    \/ \E id \in 0..MaxSpecJobs : GetCodeJobBySpecID(id)
    \/ VectorClear
    \/ DeleteSpec

Spec == Init /\ [][Next]_vars

----------------------------------------------------------------------------
(* Properties of PostSpecJob, checked under SpecGen *)

\* the rows of game_specs are those the calls that passed the insert created,
\* one each
OneRowPerInsert ==
    Cardinality(DOMAIN game_specs) = Cardinality({q \in ReqIDs : req[q].specID # 0})

\* C1: a call whose search result holds a candidate with score >= Threshold
\* goes to the DUPLICATE update and nowhere else: it ends with its job
\* DUPLICATE and the response DUPLICATE, and it inserts no game_specs row.
DuplicateOnHit ==
    \A r \in ReqIDs :
        (\E i \in 1..Len(req[r].s) : req[r].s[i].score >= Threshold) =>
            /\ req[r].pc \in {"mark_dup", "done"}
            /\ req[r].specID = 0
            /\ OneRowPerInsert
            /\ req[r].pc = "done" =>
                  /\ req[r].resp = "DUPLICATE"
                  /\ gen_spec_jobs[r].status = "DUPLICATE"

\* a call ended DUPLICATE on a candidate whose score is exactly the threshold
DuplicateAtThreshold ==
    \E r \in ReqIDs :
        /\ req[r].resp = "DUPLICATE"
        /\ gen_spec_jobs[r].status = "DUPLICATE"
        /\ req[r].s[1].score = Threshold
        /\ req[r].specID = 0

\* C2: a call that found no candidate and whose generation, insert and upsert
\* succeeded created exactly one game_specs row; the row holds the generated
\* spec_json, its spec_hash is hashSpec of that spec_json, rows of equal
\* spec_json have equal hashes, and the row is in state creating when the
\* handler returns.
CreatedWithOwnHash ==
    /\ OneRowPerInsert
    /\ \A r \in ReqIDs :
          (req[r].s = <<>> /\ req[r].resp = "COMPLETED") =>
              /\ req[r].specID \in DOMAIN game_specs
              /\ LET row == game_specs[req[r].specID]
                 IN /\ row.spec_json = req[r].g.spec_json
                    /\ row.spec_hash = hashSpec(row.spec_json)
                    /\ \A i \in DOMAIN game_specs :
                          game_specs[i].spec_json = row.spec_json
                              => game_specs[i].spec_hash = row.spec_hash
                    /\ req[r].pc = "go_read" => row.state = StateCreating

\* the handler has just returned COMPLETED for a spec found on an empty result
CreatedOnNoCandidates ==
    \E r \in ReqIDs :
        /\ req[r].s = <<>>
        /\ req[r].resp = "COMPLETED"
        /\ req[r].pc = "go_read"
        /\ req[r].specID \in DOMAIN game_specs
        /\ game_specs[req[r].specID].state = StateCreating

\* C3: no two game_specs rows have the same spec_hash, whatever the
\* interleaving of the PostSpecJob calls.
UniqueSpecHash ==
    \A a, b \in DOMAIN game_specs :
        a # b => game_specs[a].spec_hash # game_specs[b].spec_hash

\* two calls raced with the same spec_json past an empty search: one has
\* inserted and not yet upserted, the other was turned away
RacedOnSameSpec ==
    \E r, q \in ReqIDs :
        /\ r # q
        /\ req[r].g.spec_json = req[q].g.spec_json
        /\ req[r].pc = "st_read"
        /\ req[q].s = <<>>
        /\ req[q].resp = "InternalServerError"

\* a row other than r's own holds the spec_json that r generated
Twin(r) ==
    \E i \in DOMAIN game_specs :
        i # req[r].specID /\ game_specs[i].spec_json = req[r].g.spec_json

\* C4: the insert step of a call that passed the duplicate decision while a
\* row with the same spec_json exists ends the call with an error and changes
\* no table, no index entry and no worker; a call that ended so holds no spec
\* id, no code job id and no upsert acknowledgement.
ConflictRejected ==
    [][\A r \in ReqIDs :
          /\ (req[r].pc = "insert" /\ req'[r] # req[r] /\ Twin(r)) =>
                /\ req'[r].pc = "done"
                /\ req'[r].resp = "InternalServerError"
                /\ UNCHANGED <<game_specs, gen_spec_jobs, game_spec_states,
                               vectorIndex, code_jobs, wk>>
          /\ req'[r].resp = "InternalServerError" =>
                /\ req'[r].pc = "done"
                /\ req'[r].specID = 0
                /\ req'[r].codeJobID = 0
                /\ ~req'[r].acked]_vars

\* a call was turned away although its search named no duplicate, the spec
\* it generated being stored by a call that is over
RejectedBehindIndex ==
    \E r, q \in ReqIDs :
        /\ req[q].resp = "InternalServerError"
        /\ ~IsDuplicate(req[q].s, Threshold)
        /\ req[r].pc = "done"
        /\ req[r].specID \in DOMAIN game_specs
        /\ game_specs[req[r].specID].spec_json = req[q].g.spec_json
        /\ Cardinality(DOMAIN game_specs) = 1

JobSteps == {<<"QUEUED", "RUNNING">>, <<"RUNNING", "DUPLICATE">>,
             <<"RUNNING", "COMPLETED">>, <<"RUNNING", "FAILED">>}

\* C5: a gen_spec_jobs row is inserted QUEUED, is never removed, and every
\* change of its status is QUEUED->RUNNING or RUNNING->DUPLICATE, COMPLETED
\* or FAILED, so that DUPLICATE, COMPLETED and FAILED are final.
JobLifecycle ==
    [][\A r \in ReqIDs :
          IF r \in DOMAIN gen_spec_jobs
          THEN /\ r \in DOMAIN gen_spec_jobs'
               /\ \/ gen_spec_jobs'[r].status = gen_spec_jobs[r].status
                  \/ <<gen_spec_jobs[r].status, gen_spec_jobs'[r].status>> \in JobSteps
          ELSE r \in DOMAIN gen_spec_jobs' => gen_spec_jobs'[r].status = "QUEUED"]_vars

\* one job is COMPLETED and another DUPLICATE of its spec
CompletedAndDuplicate ==
    \E r, q \in DOMAIN gen_spec_jobs :
        /\ gen_spec_jobs[r].status = "COMPLETED"
        /\ gen_spec_jobs[q].status = "DUPLICATE"
        /\ gen_spec_jobs[q].duplicate_of = <<gen_spec_jobs[r].result_spec_id>>

\* C6: a COMPLETED job names the spec its call inserted, the row is stored,
\* and the call holds the acknowledgement of the index upsert for it.
CompletedAfterUpsert ==
    \A r \in DOMAIN gen_spec_jobs :
        gen_spec_jobs[r].status = "COMPLETED" =>
            /\ req[r].acked
            /\ req[r].specID \in DOMAIN game_specs
            /\ gen_spec_jobs[r].result_spec_id = req[r].specID

\* a COMPLETED job whose spec is stored and indexed under its fingerprint
CompletedAndIndexed ==
    \E r \in DOMAIN gen_spec_jobs :
        /\ gen_spec_jobs[r].status = "COMPLETED"
        /\ gen_spec_jobs[r].result_spec_id \in DOMAIN game_specs
        /\ gen_spec_jobs[r].result_spec_id \in DOMAIN vectorIndex
        /\ vectorIndex[gen_spec_jobs[r].result_spec_id] = normText(req[r].g)

\* C7: a call that leaves the validation with an empty brief is answered
\* BadRequest at once and changes nothing else; a call answered BadRequest
\* has no job row, no generated spec, no search result and no spec id.
EmptyBriefRejected ==
    [][\A r \in ReqIDs :
          /\ (req[r].pc = "idle" /\ req'[r].pc # "idle" /\ req'[r].brief = "") =>
                /\ req'[r] = [ReqInit EXCEPT !.pc = "done", !.resp = "BadRequest"]
                /\ UNCHANGED <<game_specs, gen_spec_jobs, code_jobs,
                               game_spec_states, vectorIndex, repo, wk>>
          /\ req'[r].resp = "BadRequest" =>
                /\ r \notin DOMAIN gen_spec_jobs'
                /\ req'[r].g = NoGen
                /\ req'[r].s = <<>>
                /\ req'[r].specID = 0]_vars

\* one call was answered BadRequest while another went through
BadRequestBesideCompleted ==
    \E r, q \in ReqIDs :
        /\ req[r].resp = "BadRequest"
        /\ r \notin DOMAIN gen_spec_jobs
        /\ req[q].resp = "COMPLETED"

----------------------------------------------------------------------------
(* Properties of the code-job API, checked under SpecQuery *)

JobsOfSpec(id) == {j \in DOMAIN code_jobs : code_jobs[j].game_spec_id = id}

Newest(ids) == {j \in ids : \A k \in ids : code_jobs[k].created_at <= code_jobs[j].created_at}

\* C8: in every state the query for a spec yields the jobs of that spec with
\* the greatest created_at, and none exactly when no job references the spec;
\* every answer of GetCodeJobBySpecID is such a job, or not_started exactly
\* when there is none.
LatestIsNewest ==
    [][/\ \A id \in 0..MaxSpecJobs :
             LatestCodeJobs(code_jobs', id) = {j \in JobsOfSpec(id)' : j \in Newest(JobsOfSpec(id))'}
       /\ (api' # api /\ api'.op = "GetCodeJobBySpecID") =>
             /\ (api'.code = "not_started") <=> (JobsOfSpec(api'.spec) = {})
             /\ JobsOfSpec(api'.spec) # {} =>
                   /\ api'.job \in Newest(JobsOfSpec(api'.spec))
                   /\ api'.code = code_jobs[api'.job].status]_vars

\* the query answered with the later of two jobs of one spec
AnsweredWithRetry ==
    /\ api.op = "GetCodeJobBySpecID"
    /\ Cardinality(JobsOfSpec(api.spec)) = 2
    /\ api.job \in JobsOfSpec(api.spec)
    /\ \A k \in JobsOfSpec(api.spec) \ {api.job} :
          code_jobs[k].created_at < code_jobs[api.job].created_at

----------------------------------------------------------------------------
(* Properties of processCodeGeneration, checked under SpecCode *)

\* C9: the logs column of a code job is the list passed to the last
\* updateJobStatus call for it, and empty before the first.
LogsAreLastPassed ==
    \A j \in DOMAIN code_jobs : code_jobs[j].logs = wk[j].passed

\* a job after its second update, whose list differs from the first's
SecondUpdateLogged ==
    \E j \in DOMAIN code_jobs :
        /\ code_jobs[j].progress = 40
        /\ code_jobs[j].logs = LogRetrieved
        /\ wk[j].passed = LogRetrieved

\* C10, as stated: a worker that is over, and whose CommitAndPush committed
\* and then failed all three pushes, has left its job completed, with a
\* warning among the logs.
PushFailureCompleted ==
    \A j \in DOMAIN code_jobs :
        (wk[j].pc = "done" /\ wk[j].err = "failed to push to remote") =>
            /\ code_jobs[j].status = "completed"
            /\ \E i \in 1..Len(code_jobs[j].logs) :
                  code_jobs[j].logs[i] = "Warning: Failed to push to git repository"

----------------------------------------------------------------------------
(* Properties of the worker's failure paths, checked under SpecCode *)

\* no other code job has been created or is being created
OnlyJob(j) == \A k \in CodeJobIDs \ {j} : wk[k].pc = "none"

\* C11: the update that follows a failed CreateDevinTask leaves the job
\* failed with progress 85 and changes no game_specs row; when the job is the
\* only one, the spec it was run for is in state code_generating then.
DelegationFailureKeepsState ==
    [][\A j \in CodeJobIDs :
          (wk[j].pc = "fail" /\ wk[j].fail = LogNoTask /\ wk'[j].pc = "done") =>
              /\ code_jobs'[j].status = "failed"
              /\ code_jobs'[j].progress = 85
              /\ code_jobs'[j].logs = LogNoTask
              /\ game_specs' = game_specs
              /\ game_spec_states' = game_spec_states
              /\ OnlyJob(j) => game_specs'[wk[j].specID].state = StateCodeGenerating]_vars

\* a job failed at 85 after its folder was committed and pushed, the spec in
\* code_generating
FailedAtDelegation ==
    \E j \in DOMAIN code_jobs :
        /\ wk[j].pc = "done"
        /\ code_jobs[j].status = "failed"
        /\ code_jobs[j].progress = 85
        /\ wk[j].specID \in repo.pushed
        /\ game_specs[wk[j].specID].state = StateCodeGenerating

\* C12, as stated: from one update of a code job to the next its progress
\* never decreases.
ProgressNeverDecreases ==
    [][\A j \in DOMAIN code_jobs :
          j \in DOMAIN code_jobs' => code_jobs'[j].progress >= code_jobs[j].progress]_vars

Terminal == {"completed", "failed"}

\* C13: a code job row whose status is completed or failed is left as it is
\* by every step: of its worker, of the other workers, of PostCodeJob and of
\* RetryCodeJob, whose insert adds a row without touching the old ones.
TerminalJobsFrozen ==
    [][\A j \in DOMAIN code_jobs :
          code_jobs[j].status \in Terminal =>
              /\ j \in DOMAIN code_jobs'
              /\ code_jobs'[j] = code_jobs[j]]_vars

\* a retry has been inserted and run beside the failed job of the same spec
RetriedBesideFailed ==
    \E j, k \in DOMAIN code_jobs :
        /\ j # k
        /\ code_jobs[j].game_spec_id = code_jobs[k].game_spec_id
        /\ code_jobs[j].status = "failed"
        /\ code_jobs[j].created_at < code_jobs[k].created_at
        /\ api.op = "RetryCodeJob" /\ api.job = k
        /\ code_jobs[k].status = "completed"

----------------------------------------------------------------------------
(* Properties of the state tracker *)

\* the StateTransitionRecords of a spec, in insertion order
RecordsOf(id) == SelectSeq(game_spec_states, LAMBDA row : row.game_spec_id = id)

StateGraph == {<<StateCreating, StateGitIniting>>, <<StateGitIniting, StateGitInited>>,
               <<StateGitInited, StateCodeGenerating>>,
               <<StateCodeGenerating, StateCodeGenerated>>}

\* C14, as stated: the state_after values of a spec's records follow the
\* graph creating -> git_initing -> git_inited -> code_generating ->
\* code_generated, each being the successor of the one before.
RecordsFollowGraph ==
    \A id \in SpecIDs :
        LET recs == RecordsOf(id)
        IN \A i \in 1..(Len(recs) - 1) :
              <<recs[i].state_after, recs[i + 1].state_after>> \in StateGraph

\* C15, as stated: the first record of every spec has state_before null and
\* state_after creating, and no later record of the spec has state_before
\* null.
FirstRecordFromNull ==
    \A id \in SpecIDs :
        LET recs == RecordsOf(id)
        IN Len(recs) > 0 =>
              /\ recs[1].state_before = NULL
              /\ recs[1].state_after = StateCreating
              /\ \A i \in 2..Len(recs) : recs[i].state_before # NULL

\* C16: updateGameSpecState validates nothing.  Called for a spec that
\* exists, with any newState, its read keeps the state it found and goes on,
\* its write sets the spec's state to newState, and its last statement
\* appends exactly one record (state read, newState) and returns no error.
\* Called for a spec that does not exist it returns the read's error and
\* writes neither the spec table nor the records.
TransitionUnvalidated ==
    [][\A t \in Callers :
          /\ (tr[t].pc = "idle" /\ tr'[t].pc # "idle") =>
                IF tr'[t].specID \in DOMAIN game_specs
                THEN /\ tr'[t].pc = "write"
                     /\ tr'[t].cur = game_specs[tr'[t].specID].state
                ELSE /\ tr'[t].pc = "done"
                     /\ tr'[t].err = ErrGetState
                     /\ game_specs' = game_specs
                     /\ game_spec_states' = game_spec_states
          /\ (tr[t].pc = "write" /\ tr'[t].pc # "write") =>
                /\ tr'[t].pc = "log"
                /\ game_specs'[tr[t].specID].state = tr[t].newState
                /\ game_spec_states' = game_spec_states
          /\ (tr[t].pc = "log" /\ tr'[t].pc # "log") =>
                /\ tr'[t].pc = "done"
                /\ tr'[t].err = ""
                /\ game_specs' = game_specs
                /\ game_spec_states' =
                       Append(game_spec_states,
                              StateRow(tr[t].specID, tr[t].cur, tr[t].newState))]_vars

\* one call moved a spec to a string outside the five labels, another took it
\* from git_initing back to creating, and a call for a missing spec failed
UnknownAndBackward ==
    /\ \E i \in DOMAIN game_spec_states :
          /\ game_spec_states[i].state_after \notin StateLabels
          /\ game_spec_states[i].state_before = StateGitIniting
    /\ \E t \in Callers :
          /\ tr[t].pc = "done" /\ tr[t].err = ""
          /\ tr[t].newState \notin StateLabels
          /\ game_specs[tr[t].specID].state = tr[t].newState
    /\ \E t \in Callers :
          /\ tr[t].pc = "done" /\ tr[t].err = ErrGetState
          /\ tr[t].specID \notin DOMAIN game_specs

\* C17: under PostSpecJob, PostCodeJob, RetryCodeJob and their workers, the
\* state of every spec and the state_after of every record is one of the five
\* labels.
StatesAreLabels ==
    /\ \A id \in DOMAIN game_specs : game_specs[id].state \in StateLabels
    /\ \A i \in DOMAIN game_spec_states :
          game_spec_states[i].state_after \in StateLabels

\* a worker took the spec to code_generating, and the records hold every
\* label the pipeline writes
AllWrittenLabelsRecorded ==
    /\ \E id \in DOMAIN game_specs : game_specs[id].state = StateCodeGenerating
    /\ \A s \in StateLabels \ {StateCodeGenerated} :
          \E i \in DOMAIN game_spec_states : game_spec_states[i].state_after = s

(* Progress of the pipeline *)

\* the code job PostSpecJob's goroutine enqueues
AutoJob == req[1].codeJobID

\* the spec's records hold git_initing and, after it, git_inited
WentThroughGit(id) ==
    LET recs == RecordsOf(id)
    IN \E a, b \in 1..Len(recs) :
          /\ a < b
          /\ recs[a].state_after = StateGitIniting
          /\ recs[b].state_after = StateGitInited

ReachedCodeGenerating ==
    /\ req[1].specID \in DOMAIN game_specs
    /\ game_specs[req[1].specID].state = StateCodeGenerating
    /\ WentThroughGit(req[1].specID)

\* the goroutine's INSERT of the code job failed, or a step of its worker did
StepFailed ==
    /\ AutoJob \in CodeJobIDs
    /\ \/ wk[AutoJob].pc \in {"dead", "fail"}
       \/ AutoJob \in DOMAIN code_jobs /\ code_jobs[AutoJob].status = "failed"

\* PostSpecJob has answered COMPLETED and its goroutine has not yet run
JustCompleted == req[1].resp = "COMPLETED" /\ req[1].pc = "go_read"

\* C18: once PostSpecJob has answered COMPLETED, with the git driver
\* configured and the goroutines scheduled fairly, the spec's state becomes
\* code_generating, with git_initing and then git_inited recorded before,
\* unless the insert of the code job or a step of its worker fails.
PipelineAdvances ==
    (JustCompleted /\ IsConfigured(NewGitRepo(env)))
        ~> (ReachedCodeGenerating \/ StepFailed)

\* the spec is code_generating, its job's worker is over, and nothing failed
AdvancedWithoutFailure ==
    /\ req[1].resp = "COMPLETED"
    /\ ReachedCodeGenerating
    /\ ~StepFailed
    /\ wk[AutoJob].pc = "done"
    /\ code_jobs[AutoJob].status = "completed"

(* The unconfigured git driver *)

NotConfigured ==
    env.GIT_REPO_PATH = "" \/ env.GIT_REPO_URL = "" \/ env.GIT_TOKEN = ""

\* no worker is past its IsConfigured test; the working directory is as it
\* was, no agent session exists, and the only transitions recorded are the
\* handlers' (creating) and PostSpecJob's goroutine's (git_initing)
WorkersStopped ==
    /\ repo = [folders |-> {}, committed |-> {}, pushed |-> {}]
    /\ \A j \in CodeJobIDs :
          /\ wk[j].session = NULL
          /\ wk[j].pc \notin {"mkdir", "upd80", "commit", "gi_read", "gi_write",
                              "gi_log", "upd85", "cg_read", "cg_write", "cg_log",
                              "devin", "store", "upd90", "upd100"}
    /\ \A id \in DOMAIN game_specs :
          /\ game_specs[id].devin_session_id = NULL
          /\ game_specs[id].state \in {StateCreating, StateGitIniting}
    /\ \A i \in DOMAIN game_spec_states :
          game_spec_states[i].state_after \in {StateCreating, StateGitIniting}

\* C19: with the path, the URL or the token empty, the worker that comes to
\* its IsConfigured test sets the job to failed with the log "Git repository
\* not configured" and is over, writing nothing else; no worker ever creates
\* a folder, commits, pushes, calls the agent or records a transition.
NotConfiguredFailsJob ==
    [][NotConfigured =>
          /\ WorkersStopped'
          /\ \A j \in CodeJobIDs :
                (wk[j].pc = "configured" /\ wk'[j].pc # "configured") =>
                    /\ wk'[j].pc = "done"
                    /\ code_jobs'[j].status = "failed"
                    /\ code_jobs'[j].logs = LogNotConfigured
                    /\ game_specs' = game_specs
                    /\ game_spec_states' = game_spec_states
                    /\ repo' = repo]_vars

\* only the token is missing, and a job of an existing spec has failed on it
FailedWithoutToken ==
    /\ env.GIT_REPO_PATH # "" /\ env.GIT_REPO_URL # "" /\ env.GIT_TOKEN = ""
    /\ \E j \in DOMAIN code_jobs :
          /\ wk[j].pc = "done"
          /\ code_jobs[j].status = "failed"
          /\ code_jobs[j].logs = LogNotConfigured
          /\ code_jobs[j].game_spec_id \in DOMAIN game_specs

(* RetryCodeJob *)

\* C20: RetryCodeJob for a spec that exists answers nothing but queued, and
\* its insert adds one row under an id no row had, with status queued, starts
\* the worker of that row and leaves every other row as it was, whatever the
\* status of the rows already there; for a spec that does not exist it
\* answers NotFound and inserts nothing.
RetryAlwaysInserts ==
    [][/\ \A j \in CodeJobIDs :
             (/\ wk[j].pc = "retry_insert" /\ wk'[j].pc # "retry_insert"
              /\ wk[j].specID \in DOMAIN game_specs) =>
                 /\ j \notin DOMAIN code_jobs
                 /\ DOMAIN code_jobs' = DOMAIN code_jobs \cup {j}
                 /\ code_jobs'[j].status = "queued"
                 /\ code_jobs'[j].game_spec_id = wk[j].specID
                 /\ \A k \in DOMAIN code_jobs : code_jobs'[k] = code_jobs[k]
                 /\ wk'[j].pc = "queued"
                 /\ api' = Respond("RetryCodeJob", wk[j].specID, j, "queued")
       /\ (api' # api /\ api'.op = "RetryCodeJob") =>
             IF api'.spec \in DOMAIN game_specs
             THEN /\ api'.code = "queued"
                  /\ api'.job \in DOMAIN code_jobs' \ DOMAIN code_jobs
             ELSE /\ api'.code = "NotFound"
                  /\ code_jobs' = code_jobs
                  /\ wk' = wk]_vars

\* a retry has queued a second job while the first job of the spec is being
\* processed
RetriedBesideProcessing ==
    \E j, k \in DOMAIN code_jobs :
        /\ j # k
        /\ code_jobs[j].game_spec_id = code_jobs[k].game_spec_id
        /\ code_jobs[j].status = "processing"
        /\ api = Respond("RetryCodeJob", code_jobs[k].game_spec_id, k, "queued")
        /\ code_jobs[k].status = "queued"
        /\ wk[k].pc = "queued"

(* DeleteSpec *)

\* nothing of spec id is left in the tables or in the index
NothingRemains(id) ==
    /\ id \notin DOMAIN game_specs
    /\ \A j \in DOMAIN code_jobs : code_jobs[j].game_spec_id # id
    /\ \A i \in DOMAIN game_spec_states : game_spec_states[i].game_spec_id # id
    /\ id \notin DOMAIN vectorIndex
    /\ \A r \in DOMAIN gen_spec_jobs : gen_spec_jobs[r].result_spec_id # id

\* C21, as stated: when DeleteSpec answers success nothing of the id remains,
\* and a DeleteSpec of an id no spec has answers NotFound and changes nothing.
DeleteLeavesNothing ==
    [][/\ (del.pc = "spec" /\ del'.pc = "done" /\ del'.resp = "OK") =>
              NothingRemains(del.id)'
       /\ (del' # del /\ del'.resp = "NotFound") =>
              /\ del'.id \notin DOMAIN game_specs
              /\ UNCHANGED <<game_specs, gen_spec_jobs, code_jobs,
                             game_spec_states, vectorIndex, repo>>]_vars

(* Error paths of PostSpecJob *)

\* C22: a call whose generate-spec or search request fails answers
\* BadGateway at that step and writes nothing: no game_specs row, and its
\* gen_spec_jobs row stays RUNNING, then and ever after.
UpstreamFailureLeavesRunning ==
    [][\A r \in ReqIDs :
          /\ (req[r].pc \in {"generate", "search"} /\ req'[r].pc = "done") =>
                /\ req'[r].resp = "BadGateway"
                /\ req'[r].specID = 0
                /\ gen_spec_jobs[r].status = "RUNNING"
                /\ UNCHANGED <<game_specs, gen_spec_jobs, code_jobs,
                               game_spec_states, vectorIndex, wk>>
          /\ (req[r].pc = "done" /\ req[r].resp = "BadGateway" /\ req[r].specID = 0) =>
                /\ gen_spec_jobs'[r].status = "RUNNING"
                /\ req'[r] = req[r]]_vars

\* the search of a call failed after its generation succeeded, beside a call
\* that created a spec
SearchFailedBesideCreated ==
    \E r, q \in DOMAIN gen_spec_jobs :
        /\ req[r].pc = "done" /\ req[r].resp = "BadGateway"
        /\ req[r].g # NoGen /\ req[r].specID = 0
        /\ gen_spec_jobs[r].status = "RUNNING"
        /\ gen_spec_jobs[q].status = "COMPLETED"
        /\ DOMAIN game_specs = {req[q].specID}

\* the spec of call r is a row in state creating that the index does not
\* hold, the job of r is RUNNING and r has enqueued no code job
PersistedUnindexed(r) ==
    /\ req[r].specID \in DOMAIN game_specs
    /\ game_specs[req[r].specID].state = StateCreating
    /\ req[r].specID \notin DOMAIN vectorIndex
    /\ gen_spec_jobs[r].status = "RUNNING"
    /\ gen_spec_jobs[r].result_spec_id = 0
    /\ req[r].codeJobID = 0
    /\ \A j \in DOMAIN code_jobs : code_jobs[j].game_spec_id # req[r].specID

\* C23: a call whose upsert is not acknowledged answers BadGateway at that
\* step and writes nothing more: its game_specs row stays, in state creating
\* and without an index entry, its job stays RUNNING and no code job is
\* enqueued for the spec, then and ever after.
UpsertFailureLeavesSpec ==
    [][\A r \in ReqIDs :
          /\ (req[r].pc = "upsert" /\ req'[r].pc # "upsert" /\ ~req'[r].acked) =>
                /\ req'[r].pc = "done"
                /\ req'[r].resp = "BadGateway"
                /\ PersistedUnindexed(r)'
                /\ UNCHANGED <<game_specs, gen_spec_jobs, code_jobs,
                               game_spec_states, vectorIndex, wk>>
          /\ (req[r].pc = "done" /\ req[r].resp = "BadGateway" /\ req[r].specID # 0) =>
                PersistedUnindexed(r)']_vars

\* the upsert of a call failed and the other call, with another spec, is
\* COMPLETED: two rows, one of them indexed
UnindexedBesideIndexed ==
    \E r, q \in DOMAIN gen_spec_jobs :
        /\ req[r].pc = "done" /\ req[r].resp = "BadGateway"
        /\ req[r].specID \in DOMAIN game_specs
        /\ gen_spec_jobs[r].status = "RUNNING"
        /\ gen_spec_jobs[q].status = "COMPLETED"
        /\ DOMAIN vectorIndex = {req[q].specID}
        /\ Cardinality(DOMAIN game_specs) = 2

(* The automatic code job of PostSpecJob *)

\* C24: a call holds a code job id, and a code job row exists, only after the
\* call's job was marked COMPLETED and COMPLETED was answered, never after
\* a DUPLICATE or an error answer; the goroutine's insert of the code job,
\* whether it succeeds or fails, leaves the spec jobs and the answer as they
\* were.
EnqueueOnlyAfterCompleted ==
    [][/\ \A r \in ReqIDs :
             /\ req'[r].codeJobID # 0 =>
                   /\ gen_spec_jobs'[r].status = "COMPLETED"
                   /\ req'[r].resp = "COMPLETED"
             /\ (req[r].pc = "go_insert" /\ req'[r].pc # "go_insert") =>
                   /\ gen_spec_jobs' = gen_spec_jobs
                   /\ gen_spec_jobs[r].status = "COMPLETED"
                   /\ req'[r].resp = "COMPLETED" /\ req[r].resp = "COMPLETED"
       /\ \A j \in DOMAIN code_jobs' :
             \E r \in ReqIDs : /\ req'[r].codeJobID = j
                               /\ req'[r].specID = code_jobs'[j].game_spec_id
                               /\ req'[r].pc = "done"]_vars

\* the insert of the code job failed, and the job and the answer are still
\* COMPLETED; the other call ended DUPLICATE without a code job
EnqueueFailedStillCompleted ==
    \E r, q \in DOMAIN gen_spec_jobs :
        /\ req[r].pc = "done" /\ req[r].resp = "COMPLETED"
        /\ gen_spec_jobs[r].status = "COMPLETED"
        /\ req[r].codeJobID # 0 /\ wk[req[r].codeJobID].pc = "dead"
        /\ code_jobs = <<>>
        /\ req[q].resp = "DUPLICATE" /\ req[q].codeJobID = 0

(* Side effects of a COMPLETED PostSpecJob call *)

\* the code job rows of spec id
CodeJobsOf(id) == {j \in DOMAIN code_jobs : code_jobs[j].game_spec_id = id}

\* C25, as stated: once a call that answered COMPLETED and its goroutine are
\* over, its side effects are one game_specs row, one gen_spec_jobs row, one
\* acknowledged upsert, one record and at most one code job.
CompletedCallOneRecord ==
    \A r \in ReqIDs :
        (req[r].pc = "done" /\ req[r].resp = "COMPLETED") =>
            /\ req[r].specID \in DOMAIN game_specs
            /\ r \in DOMAIN gen_spec_jobs
            /\ req[r].acked
            /\ Len(RecordsOf(req[r].specID)) = 1
            /\ Cardinality(CodeJobsOf(req[r].specID)) <= 1

\* the rows call r has written
RowsOf(r) ==
    [job |-> IF r \in DOMAIN gen_spec_jobs THEN <<gen_spec_jobs[r]>> ELSE <<>>,
     spec |-> IF req[r].specID \in DOMAIN game_specs
              THEN <<game_specs[req[r].specID]>> ELSE <<>>,
     records |-> IF req[r].specID # 0 THEN RecordsOf(req[r].specID) ELSE <<>>,
     codeJob |-> IF req[r].codeJobID \in DOMAIN code_jobs
                 THEN <<code_jobs[req[r].codeJobID]>> ELSE <<>>]

\* what a call that answered COMPLETED has written when its goroutine is over
CompletedEffects(r) ==
    /\ req[r].specID \in DOMAIN game_specs
    /\ game_specs[req[r].specID].state = StateGitIniting
    /\ gen_spec_jobs[r].status = "COMPLETED"
    /\ gen_spec_jobs[r].result_spec_id = req[r].specID
    /\ req[r].acked
    /\ RecordsOf(req[r].specID) =
          <<StateRow(req[r].specID, StateCreating, StateCreating),
            StateRow(req[r].specID, StateCreating, StateGitIniting)>>
    /\ CodeJobsOf(req[r].specID) \subseteq {req[r].codeJobID}

\* C25, amended: once a call that answered COMPLETED and its goroutine are
\* over, its side effects are one game_specs row, one gen_spec_jobs row, one
\* acknowledged upsert, two records, (creating, creating) of the handler and
\* (creating, git_initing) of the goroutine, and at most one code job, its
\* own; and no step of another call changes a row the call has written.
CompletedCallTwoRecords ==
    [][\A r \in ReqIDs :
          /\ (req'[r].pc = "done" /\ req'[r].resp = "COMPLETED") =>
                CompletedEffects(r)'
          /\ req'[r] = req[r] => RowsOf(r)' = RowsOf(r)]_vars

\* two calls that created two specs are over: four records, two of each spec
TwoCompletedFourRecords ==
    /\ \A r \in ReqIDs : req[r].pc = "done" /\ req[r].resp = "COMPLETED"
    /\ Cardinality(DOMAIN game_specs) = 2
    /\ Len(game_spec_states) = 4
    /\ \A id \in DOMAIN game_specs : Len(RecordsOf(id)) = 2

(* Order of the steps of one worker run *)

\* the statements of processCodeGeneration from CommitAndPush to
\* CreateDevinTask, in program order
GitToAgent == <<"commit", "gi_read", "gi_write", "gi_log", "upd85",
                "cg_read", "cg_write", "cg_log", "devin", "store">>

\* C26: a worker run goes through CommitAndPush, the git_inited transition,
\* the 85% update, the code_generating transition and CreateDevinTask in this
\* order, one after the other; it leaves CommitAndPush for the git_inited
\* transition only when CommitAndPush returned no error, having pushed the
\* folder, and otherwise fails the job and is over; and a spec's state becomes
\* git_inited or code_generating, and an agent session is created, at no
\* other step than these.
WorkerStepsInOrder ==
    [][/\ \A j \in CodeJobIDs :
             /\ \A i \in 1..(Len(GitToAgent) - 1) :
                   (wk[j].pc # GitToAgent[i + 1] /\ wk'[j].pc = GitToAgent[i + 1]) =>
                       wk[j].pc = GitToAgent[i]
             /\ (wk[j].pc = "commit" /\ wk'[j].pc # "commit") =>
                   IF wk'[j].err = ""
                   THEN wk'[j].pc = "gi_read" /\ wk[j].specID \in repo'.pushed
                   ELSE wk'[j].pc = "fail" /\ game_specs' = game_specs
             /\ wk[j].err # "" => /\ wk'[j].pc \in {"fail", "done"}
                                  /\ wk'[j].err = wk[j].err
             /\ (wk[j].pc = "gi_write" /\ wk'[j].pc # "gi_write") =>
                   game_specs'[wk[j].specID].state = StateGitInited
             /\ (wk[j].pc = "cg_write" /\ wk'[j].pc # "cg_write") =>
                   game_specs'[wk[j].specID].state = StateCodeGenerating
             /\ wk'[j].session # wk[j].session => wk[j].pc = "devin"
       /\ \A id \in DOMAIN game_specs :
             /\ (/\ game_specs'[id].state = StateGitInited
                 /\ game_specs[id].state # StateGitInited) =>
                   \E j \in CodeJobIDs : /\ wk[j].pc = "gi_write" /\ wk'[j].pc = "gi_log"
                                         /\ wk[j].specID = id /\ wk[j].err = ""
             /\ (/\ game_specs'[id].state = StateCodeGenerating
                 /\ game_specs[id].state # StateCodeGenerating) =>
                   \E j \in CodeJobIDs : /\ wk[j].pc = "cg_write" /\ wk'[j].pc = "cg_log"
                                         /\ wk[j].specID = id /\ wk[j].err = ""]_vars

\* the push of one run failed and the run is over, having written no state,
\* while the other run of the same spec pushed and created its agent task
PushFailedBesidePushed ==
    \E j, k \in DOMAIN code_jobs :
        /\ j # k /\ wk[j].specID = wk[k].specID
        /\ wk[j].pc = "done" /\ wk[j].err = "failed to push to remote"
        /\ code_jobs[j].status = "failed"
        /\ wk[k].session # NULL
        /\ game_specs[wk[k].specID].state = StateCodeGenerating

(* Termination of the worker *)

\* C27, as stated: the job of every started worker is completed or failed in
\* the end, the worker being scheduled fairly and each of its calls
\* returning, with success or with an error.
WorkerTerminates ==
    \A j \in CodeJobIDs :
        (wk[j].pc = "queued" /\ j \in DOMAIN code_jobs)
            ~> (j \in DOMAIN code_jobs /\ code_jobs[j].status \in Terminal)

(* Near-identical specs of concurrent calls *)

\* the rows a and b hold specs that the gateway scores as duplicates of each
\* other and that differ in their spec_json
SimilarRows(a, b) ==
    /\ a # b
    /\ game_specs[a].spec_json # game_specs[b].spec_json
    /\ Score(normText(game_specs[a]),
             normText(game_specs[b])) >= Threshold

\* C28: the duplicate decision of a call reads the index alone and its insert
\* the hashes alone: a call passes the decision exactly when no index entry
\* scores Threshold or more against its text, whatever rows are stored, and
\* the insert of a call that passed stores its row unless a row with the same
\* spec_json exists, near-identical rows being no obstacle.  So two calls
\* that both search before either upserts both insert.
BothPassBeforeUpsert ==
    [][\A r \in ReqIDs :
          /\ (req[r].pc = "search" /\ req'[r].pc \notin {"search", "done"}) =>
                (req'[r].pc = "insert" <=>
                    \A id \in DOMAIN vectorIndex :
                        Score(vectorIndex[id], normText(req[r].g)) < Threshold)
          /\ (req[r].pc = "insert" /\ req'[r] # req[r] /\ ~Twin(r)) =>
                /\ req'[r].pc = "st_read"
                /\ req'[r].specID \in DOMAIN game_specs' \ DOMAIN game_specs
                /\ game_specs'[req'[r].specID].spec_json = req[r].g.spec_json]_vars

\* two calls have both inserted and neither has upserted: the two rows are
\* duplicates of each other by the gateway's score and not byte-identical
TwoSimilarRowsStored ==
    \E r, q \in ReqIDs :
        /\ r # q
        /\ req[r].pc = "st_read" /\ req[q].pc = "st_read"
        /\ ~req[r].acked /\ ~req[q].acked
        /\ ~IsDuplicate(req[r].s, Threshold) /\ ~IsDuplicate(req[q].s, Threshold)
        /\ req[r].specID \in DOMAIN game_specs
        /\ req[q].specID \in DOMAIN game_specs
        /\ SimilarRows(req[r].specID, req[q].specID)

(* Interleaved state transitions *)

\* each record of the spec starts from the state the record before it ended in
Chained(id) ==
    LET recs == RecordsOf(id)
    IN \A i \in 1..(Len(recs) - 1) : recs[i + 1].state_before = recs[i].state_after

\* C29: as long as no call of updateGameSpecState for a spec has had another
\* call for that spec under way between its read and its log, every record of
\* the spec has for state_before the state_after of the record appended just
\* before it.  Calls that interleave between read and write can break this.
ChainedUnlessOverlapped ==
    \A id \in SpecIDs :
        (\A t \in Callers :
            tr[t].specID = id => ~tr[t].overlap /\ ~Overlapped(t))
            => Chained(id)

\* two calls for one spec have both read before either wrote and are both
\* over: the record of the second starts from a state that is not the one
\* the record before it ended in
InterleavedBreakChain ==
    \E t, u \in Callers :
        /\ t # u
        /\ tr[t].specID = tr[u].specID
        /\ tr[t].pc = "done" /\ tr[u].pc = "done"
        /\ tr[t].err = "" /\ tr[u].err = ""
        /\ tr[t].overlap /\ tr[u].overlap
        /\ tr[t].cur = tr[u].cur
        /\ tr[t].seen = tr[u].seen
        /\ ~Chained(tr[t].specID)

(* Concurrent workers of one spec *)

\* C30: a worker looks at no other job and no other worker: whatever the
\* other jobs of its spec are doing, a queued worker's first step sets its
\* job to processing, and the folder it creates and commits is the one named
\* by the spec id, shared by every worker of the spec.  So two workers of one
\* spec can be processing at once in the same folder.
WorkersNotExcluded ==
    [][\A j \in CodeJobIDs :
          /\ (wk[j].pc = "queued" /\ wk'[j].pc # "queued") =>
                /\ wk'[j].pc = "fetch"
                /\ code_jobs'[j].status = "processing"
                /\ \A k \in DOMAIN code_jobs \ {j} : code_jobs'[k] = code_jobs[k]
          /\ (wk[j].pc = "mkdir" /\ wk'[j].pc = "upd80") =>
                repo'.folders = repo.folders \cup {wk[j].specID}
          /\ (wk[j].pc = "commit" /\ wk'[j].pc = "gi_read") =>
                /\ wk[j].specID \in repo.folders
                /\ wk[j].specID \in repo'.pushed]_vars

\* two jobs of one spec are processing, both workers have created the
\* spec's folder and are about to commit it
TwoWorkersOneFolder ==
    \E j, k \in DOMAIN code_jobs :
        /\ j # k
        /\ code_jobs[j].game_spec_id = code_jobs[k].game_spec_id
        /\ wk[j].specID = code_jobs[j].game_spec_id
        /\ wk[k].specID = code_jobs[k].game_spec_id
        /\ code_jobs[j].status = "processing"
        /\ code_jobs[k].status = "processing"
        /\ wk[j].pc = "commit" /\ wk[k].pc = "commit"
        /\ wk[j].specID \in repo.folders

----------------------------------------------------------------------------
(* The git driver on its own *)

CommitErrors == {"failed to pull latest changes", "failed to add files to git",
                 "failed to commit changes"}

\* C31: a CommitAndPush call whose pull, add and commit succeeded runs the
\* push commands push origin main, push origin master, push -u origin main
\* in this order, each only after the ones before it failed, and none after
\* one that succeeded; it returns nil when its last push succeeded and the
\* push error exactly when it ran all three and all three failed.  A call
\* that failed before or at the commit runs no push.
PushesInOrder ==
    drv.call.op = "CommitAndPush" =>
        LET c == drv.call
            k == Len(c.pushes)
        IN /\ c.pushes = SubSeq(PushCommands, 1, k)
           /\ \A i \in 1..(k - 1) : ~c.ok[i]
           /\ (k = 0) <=> (c.err \in CommitErrors)
           /\ k >= 1 =>
                /\ c.id \in repo.committed
                /\ c.err \in {"", "failed to push to remote"}
                /\ (c.err = "") <=> c.ok[k]
                /\ (c.err = "failed to push to remote") <=>
                       (k = 3 /\ ~c.ok[1] /\ ~c.ok[2] /\ ~c.ok[3])

\* the push to main failed, the push to master succeeded and no third push
\* was run: the call returned nil and the commit is on the remote
SecondPushSucceeded ==
    /\ drv.call.op = "CommitAndPush"
    /\ drv.call.pushes = <<"push origin main", "push origin master">>
    /\ drv.call.ok = <<FALSE, TRUE>>
    /\ drv.call.err = ""
    /\ drv.call.id \in repo.pushed

\* C32, as stated: a RemoveGameFolders call that commits the deletion pushes
\* it exactly when auto-push is enabled in the configuration, and a call
\* whose staged diff is empty commits nothing and pushes nothing.
RemovePushesWhenEnabled ==
    [][(drv'.n # drv.n /\ drv'.call.op = "RemoveGameFolders") =>
          /\ repo'.committed # repo.committed =>
                (drv'.call.pushes # <<>> <=> env.GIT_AUTO_PUSH = "true")
          /\ repo'.committed = repo.committed => drv'.call.pushes = <<>>
          /\ repo.folders \ {drv'.call.id} = repo.committed =>
                repo'.committed = repo.committed]_vars

\* the step is an InitializeRepo call that follows an InitializeRepo call,
\* with the same settings and the same behaviour of the commands
SecondInitializeRepo ==
    /\ drv.call.op = "InitializeRepo"
    /\ drv'.call.op = "InitializeRepo"
    /\ drv'.n = drv.n + 1
    /\ drv'.call.out = drv.call.out

\* what InitializeRepo is to ensure: the directory is a git repository whose
\* origin is the authenticated URL and whose committer identity is set
Ensured(c, g) ==
    /\ c.dir /\ c.isRepo
    /\ c.origin = getAuthenticatedURL(g).url /\ c.origin # NoURL
    /\ c.userName # "" /\ c.userEmail # ""

----------------------------------------------------------------------------
(* The session id *)

\* C34: the devin_session_id of a spec is written only by the step of a
\* worker of that spec that follows its successful CreateDevinTask, with the
\* session id that call returned; whether that write succeeds or not, the
\* worker goes on to the update to processing 90 and from there to completed
\* 100, and a worker that has come to the write has its job completed with
\* progress 100 in the end.
SessionBestEffort ==
    /\ [][/\ \A id \in DOMAIN game_specs \cap DOMAIN game_specs' :
                game_specs'[id].devin_session_id # game_specs[id].devin_session_id =>
                    \E j \in CodeJobIDs :
                        /\ wk[j].pc = "store" /\ wk'[j].pc = "upd90"
                        /\ wk[j].specID = id
                        /\ wk[j].session # NULL
                        /\ game_specs'[id].devin_session_id = wk[j].session
          /\ \A j \in CodeJobIDs :
                /\ (wk[j].session = NULL /\ wk'[j].session # NULL) =>
                      wk[j].pc = "devin" /\ wk'[j].pc = "store"
                /\ (wk[j].pc = "store" /\ wk'[j].pc # "store") =>
                      wk'[j].pc = "upd90" /\ code_jobs' = code_jobs
                /\ (wk[j].pc = "upd90" /\ wk'[j].pc # "upd90") =>
                      /\ wk'[j].pc = "upd100"
                      /\ code_jobs'[j].status = "processing"
                      /\ code_jobs'[j].progress = 90
                /\ (wk[j].pc = "upd100" /\ wk'[j].pc # "upd100") =>
                      /\ wk'[j].pc = "done"
                      /\ code_jobs'[j].status = "completed"
                      /\ code_jobs'[j].progress = 100]_vars
    /\ \A j \in CodeJobIDs :
          (wk[j].pc = "store") ~>
              (/\ j \in DOMAIN code_jobs
               /\ code_jobs[j].status = "completed"
               /\ code_jobs[j].progress = 100)

\* the write of the session id failed: the job is completed with progress
\* 100, its worker holds a session id and the spec has none
CompletedWithoutStoredSession ==
    \E j \in DOMAIN code_jobs :
        /\ wk[j].pc = "done"
        /\ wk[j].session # NULL
        /\ code_jobs[j].status = "completed" /\ code_jobs[j].progress = 100
        /\ wk[j].specID \in DOMAIN game_specs
        /\ game_specs[wk[j].specID].devin_session_id = NULL

----------------------------------------------------------------------------
(* The worker before its push *)

\* the worker has started and CommitAndPush has not returned nil: it is at a
\* statement up to CommitAndPush or in the error branch of one of them
BeforePush(w) ==
    \/ w.pc \in {"queued", "fetch", "upd40", "configured", "mkdir", "upd80", "commit"}
    \/ w.pc = "fail" /\ w.failAt = 0

\* C35: no step a worker takes before its CommitAndPush has succeeded, and no
\* step of an error branch entered there, writes the state of a spec or adds,
\* changes or removes a record of the history: a run that fails before its
\* push has changed neither.
FailedRunWritesNoState ==
    [][\A j \in CodeJobIDs :
          (BeforePush(wk[j]) /\ wk'[j] # wk[j]) =>
              /\ game_spec_states' = game_spec_states
              /\ DOMAIN game_specs' = DOMAIN game_specs
              /\ \A id \in DOMAIN game_specs :
                    game_specs'[id].state = game_specs[id].state
              /\ (wk'[j].pc = "done" => code_jobs'[j].status = "failed")
              /\ wk'[j].pc \in {"gi_read", "done"} \/ BeforePush(wk'[j])]_vars

\* the run of the spec's only job failed at the pull or the commit: the spec
\* is in the state PostSpecJob left it in and its history holds the two
\* records of PostSpecJob alone
FailedBeforePushUntouched ==
    \E j \in DOMAIN code_jobs :
        /\ DOMAIN code_jobs = {j}
        /\ wk[j].pc = "done"
        /\ code_jobs[j].status = "failed"
        /\ wk[j].err \in {"failed to pull latest changes", "failed to commit changes"}
        /\ game_specs[wk[j].specID].state = StateGitIniting
        /\ Len(RecordsOf(wk[j].specID)) = 2

----------------------------------------------------------------------------
(* Status and progress of a code job *)

\* C36: every code job has one of the four statuses and a progress from 0 to
\* 100; a queued job has progress 0, a job is completed exactly when its
\* progress is 100, and a failed job has progress 0 or 85.
StatusProgress ==
    \A j \in DOMAIN code_jobs :
        LET job == code_jobs[j]
        IN /\ job.status \in {"queued", "processing", "completed", "failed"}
           /\ job.progress \in 0..100
           /\ job.status = "queued" => job.progress = 0
           /\ job.status = "completed" <=> job.progress = 100
           /\ job.status = "failed" => job.progress \in {0, 85}
           /\ job.status = "processing" => job.progress \in {20, 40, 60, 80, 85, 90}

\* one job of the spec failed at 85, its agent task not created, and the
\* other is completed at 100
FailedAt85BesideCompleted ==
    \E j, k \in DOMAIN code_jobs :
        /\ code_jobs[j].status = "failed" /\ code_jobs[j].progress = 85
        /\ code_jobs[k].status = "completed" /\ code_jobs[k].progress = 100
        /\ wk[j].pc = "done" /\ wk[k].pc = "done"

----------------------------------------------------------------------------
(* The last state of the graph *)

\* C37: no spec is ever in the state code_generated and no record of the
\* history ends in it or starts from it; no call in progress is about to
\* write it.
NeverCodeGenerated ==
    /\ \A id \in DOMAIN game_specs : game_specs[id].state # StateCodeGenerated
    /\ \A i \in DOMAIN game_spec_states :
          /\ game_spec_states[i].state_after # StateCodeGenerated
          /\ game_spec_states[i].state_before # StateCodeGenerated
    /\ \A j \in CodeJobIDs :
          wk[j].pc \in {"cg_read", "cg_write", "cg_log"} =>
              WkNewState(wk[j].pc) # StateCodeGenerated
    /\ \A r \in ReqIDs : req[r].cur # StateCodeGenerated

\* the pipeline of the spec ran to its end: its only job is completed at
\* 100, the agent session is stored, and the spec is still code_generating
CompletedStillGenerating ==
    \E j \in DOMAIN code_jobs :
        /\ DOMAIN code_jobs = {j}
        /\ wk[j].pc = "done"
        /\ code_jobs[j].status = "completed" /\ code_jobs[j].progress = 100
        /\ game_specs[wk[j].specID].devin_session_id # NULL
        /\ game_specs[wk[j].specID].state = StateCodeGenerating
        /\ LET recs == RecordsOf(wk[j].specID)
           IN recs[Len(recs)].state_after = StateCodeGenerating

----------------------------------------------------------------------------
(* After the deletion *)

\* DeleteSpec has answered OK for the spec
Deleted(id) == del.pc = "done" /\ del.resp = "OK" /\ del.id = id

\* C38, as stated: once DeleteSpec has answered OK for a spec, no step
\* creates or commits a folder of its id, inserts a code job or a history
\* record for it, or leaves a worker of it for ever short of a terminal
\* point: the folder and the commit of a deleted spec are there only if they
\* were there before the step.
NothingRecreated ==
    [][\A id \in SpecIDs :
          Deleted(id) =>
              /\ id \in repo'.folders => id \in repo.folders
              /\ id \in repo'.committed => id \in repo.committed
              /\ \A j \in DOMAIN code_jobs' :
                    code_jobs'[j].game_spec_id = id => j \in DOMAIN code_jobs
              /\ Len(RecordsOf(id)') <= Len(RecordsOf(id))]_vars

----------------------------------------------------------------------------
(* A deletion that stops half-way *)

\* C39: DeleteSpec is not all-or-nothing.  The git cleanup never ends the
\* call, whatever its outcome: the call goes on to the similarity index with
\* no reply yet.  When the index delete fails the reply is an error and that
\* step changes no spec row, no code job and no history record, so the row of
\* the spec is still there; the folder may have been removed before.  An OK
\* reply carries the outcome of the git cleanup, success only if it succeeded.
DeleteNotAtomic ==
    [][/\ del.pc = "git" => del'.pc \in {"git", "vector"} /\ del'.resp = "none"
       /\ (del.pc = "vector" /\ del'.pc = "done") =>
              /\ del'.resp = "InternalServerError"
              /\ UNCHANGED <<game_specs, code_jobs, game_spec_states, repo>>
              /\ del'.id \in DOMAIN game_specs'
              /\ del'.id \in DOMAIN vectorIndex' <=> del.id \in DOMAIN vectorIndex
       /\ (del.pc = "vector" /\ del'.pc = "jobs") =>
              UNCHANGED <<game_specs, code_jobs, game_spec_states, repo>>]_vars

\* the index delete failed after the folder of a spec with a completed job
\* was removed: error reply, row, job, records and index entry in place,
\* folder gone
FolderGoneRowsKept ==
    /\ del.pc = "done" /\ del.resp = "InternalServerError"
    /\ del.git
    /\ del.id \in DOMAIN game_specs
    /\ del.id \in DOMAIN vectorIndex
    /\ del.id \notin repo.folders
    /\ \E j \in DOMAIN code_jobs : /\ code_jobs[j].game_spec_id = del.id
                                   /\ code_jobs[j].status = "completed"
    /\ Len(RecordsOf(del.id)) > 0

====
